---- MODULE Spec2Model ----
(***************************************************************************)
(* Model of the libdns wire codec: domain labels and names, the LabelMap  *)
(* back-reference dictionary, compressed serialization of names and        *)
(* questions, and compressed / plain parsing.                              *)
(*                                                                         *)
(* Octets are naturals 0..255, a label is the sequence of its octets, a    *)
(* name is the sequence of its labels, and a byte buffer is a sequence of  *)
(* octets.  Offsets are counted from 0 as in the code, so the octet at     *)
(* offset o of a buffer b is b[o + 1].                                     *)
(***************************************************************************)
EXTENDS Integers, Sequences, FiniteSets, TLC

VARIABLES
    label_map,       \* LabelMap.label_to_offset_map : label sequence -> offset
    message,         \* octets emitted so far by the compression session
    rolling_offset,  \* offset threaded from one to_bytes_compressed to the next
    items,           \* the names / questions serialized so far, in order
    call,            \* the last operation performed, its inputs and its outcome
    decoded,         \* outcome of MessageQuestions::parse_compressed over message
    ops,             \* number of LabelMap operations applied (LabelMap specification)
    buf,             \* a received message buffer (decoder specification)
    text             \* a domain-name text being typed (plain specification)

vars == <<label_map, message, rolling_offset, items, call, decoded, ops, buf, text>>

(***************************************************************************)
(* Bounds of the model.                                                    *)
(***************************************************************************)
MaxItems == 3        \* names / questions per compression session
MaxLabels == 2       \* labels per name in the compression session
MaxMapOps == 2       \* operations applied to the LabelMap on its own
MaxBuf == 7          \* octets in a received buffer
MaxText == 4         \* characters in a typed domain-name text
MaxRun == 64         \* length of the run of one character a label text starts with
MaxTail == 2         \* characters typed after that run
MaxLongLabels == 6   \* labels of a long name
MaxTxtStrings == 256 \* character strings of a TXT RDATA

(***************************************************************************)
(* Program constants.                                                      *)
(***************************************************************************)
POINTER_PREFIX == 49152
DomainPointer_SIZE == 2
MAX_LABEL_LENGTH == 63
DOMAIN_NAME_LENGTH_LIMIT == 255
Qtype_A == 1
ResourceRecordQClass_In == 1

\* The labels the compression session draws its names from ("a", "bc").
SessionLabels == { <<97>>, <<98, 99>> }
\* The octets a received buffer is made of.
BufOctets == { 0, 1, 97, 192 }
\* The characters a text is typed from: 'a', 'B', '1', '-', '.'.
TextChars == { 97, 66, 49, 45, 46 }

NoMap == << >>

(***************************************************************************)
(* Sequence helpers.                                                       *)
(***************************************************************************)
Drop(s, n) == SubSeq(s, n + 1, Len(s))

Take(s, n) == SubSeq(s, 1, n)

be_u16(v) == << (v \div 256) % 256, v % 256 >>

SeqsUpTo(S, n) == UNION { [1..k -> S] : k \in 1..n }

(***************************************************************************)
(* DomainLabel.                                                            *)
(***************************************************************************)
DomainLabel_new_empty == << >>

DomainLabel_len(label) == Len(label)

DomainLabel_is_empty(label) == Len(label) = 0

DomainLabel_len_bytes(label) == Len(label) + 1

DomainLabel_to_bytes(label) == <<Len(label)>> \o label

\* Reads one length octet and that many following octets.
DomainLabel_parse(bytes) ==
    IF Len(bytes) < 1
    THEN [ok |-> FALSE, label |-> << >>, rest |-> << >>]
    ELSE IF Len(bytes) - 1 < bytes[1]
         THEN [ok |-> FALSE, label |-> << >>, rest |-> << >>]
         ELSE [ok |-> TRUE,
               label |-> SubSeq(bytes, 2, bytes[1] + 1),
               rest |-> Drop(bytes, bytes[1] + 1)]

to_ascii_lowercase(ch) == IF ch >= 65 /\ ch <= 90 THEN ch + 32 ELSE ch

\* PartialEq for DomainLabel: equality of the lowercased texts.
DomainLabel_eq(a, b) ==
    /\ Len(a) = Len(b)
    /\ \A i \in 1..Len(a) : to_ascii_lowercase(a[i]) = to_ascii_lowercase(b[i])

is_alphabetic(ch) == (ch >= 65 /\ ch <= 90) \/ (ch >= 97 /\ ch <= 122)

is_alphanumeric(ch) == is_alphabetic(ch) \/ (ch >= 48 /\ ch <= 57)

\* itertools with_position: Only for a single element, else First/Middle/Last.
Position(i, n) ==
    IF n = 1 THEN "Only"
    ELSE IF i = 1 THEN "First"
    ELSE IF i = n THEN "Last"
    ELSE "Middle"

\* The body of the loop over with_position(): the check of character i.
char_check(label, i) ==
    IF Position(i, Len(label)) = "First" /\ ~is_alphabetic(label[i])
    THEN "InvalidStartChar"
    ELSE IF Position(i, Len(label)) = "Last" /\ ~is_alphanumeric(label[i])
    THEN "InvalidEndChar"
    ELSE IF label[i] # 45 /\ ~is_alphanumeric(label[i])
    THEN "InvalidChar"
    ELSE "Ok"

\* The loop returns at the first character whose check fails.
validate_chars(label) ==
    LET bad == { i \in 1..Len(label) : char_check(label, i) # "Ok" }
    IN  IF bad = {} THEN "Ok"
        ELSE char_check(label, CHOOSE i \in bad : \A j \in bad : i <= j)

validate_label(label) ==
    IF Len(label) > MAX_LABEL_LENGTH THEN "LabelTooLong"
    ELSE validate_chars(label)

\* Variant: a label of exactly MAX_LABEL_LENGTH characters is refused too.
DomainLabel_try_from_off_by_one(value) ==
    IF Len(value) >= MAX_LABEL_LENGTH
    THEN [ok |-> FALSE, label |-> << >>, err |-> "LabelTooLong"]
    ELSE [ok |-> validate_label(value) = "Ok",
          label |-> IF validate_label(value) = "Ok" THEN value ELSE << >>,
          err |-> validate_label(value)]

\* TryFrom<&str> for DomainLabel (the text is ASCII here).
DomainLabel_try_from(value) ==
    [ok |-> validate_label(value) = "Ok",
     label |-> IF validate_label(value) = "Ok" THEN value ELSE << >>,
     err |-> validate_label(value)]

(***************************************************************************)
(* DomainPointer.                                                          *)
(***************************************************************************)
\* OFFSET_INDICATOR | offset on 16 bits, big-endian.
DomainPointer_to_bytes(offset) ==
    be_u16(POINTER_PREFIX + ((offset % 65536) % 16384))

DomainPointer_parse(bytes) ==
    IF Len(bytes) < 1
    THEN [ok |-> FALSE, offset |-> 0, rest |-> << >>]
    ELSE IF bytes[1] \div 64 # 3
    THEN [ok |-> FALSE, offset |-> 0, rest |-> << >>]
    ELSE IF Len(bytes) < 2
    THEN [ok |-> FALSE, offset |-> 0, rest |-> << >>]
    ELSE [ok |-> TRUE,
          offset |-> (bytes[1] % 64) * 256 + bytes[2],
          rest |-> Drop(bytes, 2)]

(***************************************************************************)
(* DomainName: plain codec, text construction, equality.                   *)
(***************************************************************************)
RECURSIVE labels_to_bytes(_)
labels_to_bytes(labels) ==
    IF labels = << >> THEN << >>
    ELSE DomainLabel_to_bytes(Head(labels)) \o labels_to_bytes(Tail(labels))

RECURSIVE labels_len_bytes(_)
labels_len_bytes(labels) ==
    IF labels = << >> THEN 0
    ELSE DomainLabel_len_bytes(Head(labels)) + labels_len_bytes(Tail(labels))

\* Variant: the terminating root label is forgotten.
DomainName_to_bytes_no_root(domain_labels) == labels_to_bytes(domain_labels)

\* Every label followed by the empty (root) label.
DomainName_to_bytes(domain_labels) ==
    labels_to_bytes(Append(domain_labels, DomainLabel_new_empty))

\* Variant: when the buffer runs out the labels read so far are returned.
RECURSIVE parse_loop_truncating(_, _)
parse_loop_truncating(domain_labels, remaining) ==
    LET r == DomainLabel_parse(remaining) IN
    IF ~r.ok THEN [ok |-> TRUE, labels |-> domain_labels, rest |-> << >>]
    ELSE IF DomainLabel_is_empty(r.label)
         THEN [ok |-> TRUE, labels |-> Append(domain_labels, r.label), rest |-> r.rest]
         ELSE parse_loop_truncating(Append(domain_labels, r.label), r.rest)

DomainName_parse_truncating(bytes) == parse_loop_truncating(<< >>, bytes)

RECURSIVE DomainName_parse_loop(_, _)
DomainName_parse_loop(domain_labels, remaining) ==
    LET r == DomainLabel_parse(remaining) IN
    IF ~r.ok THEN [ok |-> FALSE, labels |-> << >>, rest |-> << >>]
    ELSE IF DomainLabel_is_empty(r.label)
         THEN [ok |-> TRUE, labels |-> Append(domain_labels, r.label), rest |-> r.rest]
         ELSE DomainName_parse_loop(Append(domain_labels, r.label), r.rest)

\* The parsed label vector keeps the terminating empty label.
DomainName_parse(bytes) == DomainName_parse_loop(<< >>, bytes)

\* Position of the first '.' of a text, 0 when it has none.
FirstDot(chars) ==
    IF \E i \in 1..Len(chars) : chars[i] = 46
    THEN CHOOSE i \in 1..Len(chars) :
             chars[i] = 46 /\ \A j \in 1..(i - 1) : chars[j] # 46
    ELSE 0

\* AsciiStr::split on '.': the parts between dots, empty parts included.
RECURSIVE split_dot(_)
split_dot(chars) ==
    IF FirstDot(chars) = 0 THEN << chars >>
    ELSE << Take(chars, FirstDot(chars) - 1) >>
             \o split_dot(Drop(chars, FirstDot(chars)))

RECURSIVE first_invalid(_)
first_invalid(parts) ==
    IF parts = << >> THEN "Ok"
    ELSE IF validate_label(Head(parts)) # "Ok" THEN validate_label(Head(parts))
    ELSE first_invalid(Tail(parts))

RECURSIVE total_label_len(_)
total_label_len(labels) ==
    IF labels = << >> THEN 0
    ELSE DomainLabel_len(Head(labels)) + total_label_len(Tail(labels))

\* TryFrom<&str> for DomainName (the text is ASCII here).
DomainName_try_from(value) ==
    LET parts == split_dot(value) IN
    IF first_invalid(parts) # "Ok"
    THEN [ok |-> FALSE, labels |-> << >>, err |-> first_invalid(parts)]
    ELSE IF total_label_len(parts) > DOMAIN_NAME_LENGTH_LIMIT
    THEN [ok |-> FALSE, labels |-> << >>, err |-> "NameTooLong"]
    ELSE [ok |-> TRUE, labels |-> parts, err |-> "Ok"]

Min(a, b) == IF a < b THEN a ELSE b

\* PartialEq for DomainName: zip the labels, compare pairwise, all_equal.
DomainName_eq(a, b) ==
    LET n == Min(Len(a), Len(b)) IN
    \A i, j \in 1..n : DomainLabel_eq(a[i], b[i]) = DomainLabel_eq(a[j], b[j])

(***************************************************************************)
(* LabelMap.                                                               *)
(***************************************************************************)
\* labels[i..] of the code, with i counted from 1.
Suffix(labels, i) == SubSeq(labels, i, Len(labels))

\* MessageOffset is u16.
u16_add(a, b) == (a + b) % 65536

LabelMap_new == NoMap

RECURSIVE get_domain_ptr_loop(_, _, _, _)
get_domain_ptr_loop(map, labels, i, remaining_labels) ==
    IF i > Len(labels)
    THEN [kind |-> "None", offset |-> 0, remaining_labels |-> << >>]
    ELSE IF Suffix(labels, i) \in DOMAIN map
    THEN [kind |-> "Some", offset |-> map[Suffix(labels, i)],
          remaining_labels |-> remaining_labels]
    ELSE get_domain_ptr_loop(map, labels, i + 1, Append(remaining_labels, labels[i]))

\* Variant: the suffixes are walked from the shortest to the longest.
RECURSIVE get_domain_ptr_shortest_loop(_, _, _)
get_domain_ptr_shortest_loop(map, labels, i) ==
    IF i < 1
    THEN [kind |-> "None", offset |-> 0, remaining_labels |-> << >>]
    ELSE IF Suffix(labels, i) \in DOMAIN map
    THEN [kind |-> "Some", offset |-> map[Suffix(labels, i)],
          remaining_labels |-> Take(labels, i - 1)]
    ELSE get_domain_ptr_shortest_loop(map, labels, i - 1)

get_domain_ptr_shortest(map, labels) ==
    IF Len(labels) = 0
    THEN [kind |-> "Panic", offset |-> 0, remaining_labels |-> << >>]
    ELSE get_domain_ptr_shortest_loop(map, labels, Len(labels))

\* labels.len() - 1 underflows on an empty slice and the walk aborts.
get_domain_ptr(map, labels) ==
    IF Len(labels) = 0
    THEN [kind |-> "Panic", offset |-> 0, remaining_labels |-> << >>]
    ELSE get_domain_ptr_loop(map, labels, 1, << >>)

RECURSIVE insert_loop(_, _, _, _, _)
insert_loop(map, domain_labels, i, current_offset, inserted_records) ==
    IF i > Len(domain_labels)
    THEN [kind |-> "Ok", map |-> map, inserted_records |-> inserted_records,
          new_offset |-> current_offset, remaining_labels |-> << >>]
    ELSE IF Suffix(domain_labels, i) \in DOMAIN map
    THEN [kind |-> "Ok", map |-> map, inserted_records |-> inserted_records,
          new_offset |-> current_offset,
          remaining_labels |-> Suffix(domain_labels, i)]
    ELSE insert_loop((Suffix(domain_labels, i) :> current_offset) @@ map,
                     domain_labels, i + 1,
                     u16_add(current_offset, DomainLabel_len_bytes(domain_labels[i])),
                     inserted_records + 1)

\* Variant: the rolling offset advances by the label's length without its
\* length octet.
RECURSIVE insert_loop_len(_, _, _, _, _)
insert_loop_len(map, domain_labels, i, current_offset, inserted_records) ==
    IF i > Len(domain_labels)
    THEN [kind |-> "Ok", map |-> map, inserted_records |-> inserted_records,
          new_offset |-> current_offset, remaining_labels |-> << >>]
    ELSE IF Suffix(domain_labels, i) \in DOMAIN map
    THEN [kind |-> "Ok", map |-> map, inserted_records |-> inserted_records,
          new_offset |-> current_offset,
          remaining_labels |-> Suffix(domain_labels, i)]
    ELSE insert_loop_len((Suffix(domain_labels, i) :> current_offset) @@ map,
                         domain_labels, i + 1,
                         u16_add(current_offset, DomainLabel_len(domain_labels[i])),
                         inserted_records + 1)

insert_advance_by_len(map, domain_labels, offset) ==
    IF Len(domain_labels) = 0
    THEN [kind |-> "Panic", map |-> map, inserted_records |-> 0,
          new_offset |-> offset, remaining_labels |-> << >>]
    ELSE insert_loop_len(map, domain_labels, 1, offset, 0)

\* Variant: every suffix is stored with HashMap::insert, occupied or not.
RECURSIVE insert_loop_overwrite(_, _, _, _, _)
insert_loop_overwrite(map, domain_labels, i, current_offset, inserted_records) ==
    IF i > Len(domain_labels)
    THEN [kind |-> "Ok", map |-> map, inserted_records |-> inserted_records,
          new_offset |-> current_offset, remaining_labels |-> << >>]
    ELSE insert_loop_overwrite(
             (Suffix(domain_labels, i) :> current_offset) @@ map,
             domain_labels, i + 1,
             u16_add(current_offset, DomainLabel_len_bytes(domain_labels[i])),
             IF Suffix(domain_labels, i) \in DOMAIN map
             THEN inserted_records ELSE inserted_records + 1)

insert_overwrite(map, domain_labels, offset) ==
    IF Len(domain_labels) = 0
    THEN [kind |-> "Panic", map |-> map, inserted_records |-> 0,
          new_offset |-> offset, remaining_labels |-> << >>]
    ELSE insert_loop_overwrite(map, domain_labels, 1, offset, 0)

\* Variant: only the whole sequence is stored, none of its shorter
\* suffixes.
insert_whole_only(map, domain_labels, offset) ==
    IF Len(domain_labels) = 0
    THEN [kind |-> "Panic", map |-> map, inserted_records |-> 0,
          new_offset |-> offset, remaining_labels |-> << >>]
    ELSE IF domain_labels \in DOMAIN map
    THEN [kind |-> "Ok", map |-> map, inserted_records |-> 0,
          new_offset |-> offset, remaining_labels |-> domain_labels]
    ELSE [kind |-> "Ok", map |-> (domain_labels :> offset) @@ map,
          inserted_records |-> 1,
          new_offset |-> u16_add(offset, labels_len_bytes(domain_labels)),
          remaining_labels |-> << >>]

insert(map, domain_labels, offset) ==
    IF Len(domain_labels) = 0
    THEN [kind |-> "Panic", map |-> map, inserted_records |-> 0,
          new_offset |-> offset, remaining_labels |-> << >>]
    ELSE insert_loop(map, domain_labels, 1, offset, 0)

clear(map) == NoMap

(***************************************************************************)
(* Compressed serialization of a DomainName.                               *)
(***************************************************************************)
\* Variant: the name is inserted into the map before the lookup.
to_bytes_compressed_insert_first(domain_labels, base_offset, map) ==
    LET after == insert(map, domain_labels, base_offset)
        result == get_domain_ptr(after.map, domain_labels)
    IN  IF result.kind = "Panic"
        THEN [kind |-> "Panic", compressed_bytes |-> << >>,
              new_offset |-> base_offset, map |-> map]
        ELSE IF result.kind = "Some"
        THEN [kind |-> "Ok",
              compressed_bytes |->
                  labels_to_bytes(result.remaining_labels)
                      \o DomainPointer_to_bytes(result.offset),
              new_offset |->
                  u16_add(u16_add(base_offset,
                                  labels_len_bytes(result.remaining_labels)),
                          DomainPointer_SIZE),
              map |-> after.map]
        ELSE [kind |-> "Ok",
              compressed_bytes |-> DomainName_to_bytes(domain_labels),
              new_offset |-> u16_add(Len(DomainName_to_bytes(domain_labels)), base_offset),
              map |-> after.map]

\* Variant: the root octet is emitted after the pointer as well.
to_bytes_compressed_root_after_pointer(domain_labels, base_offset, map) ==
    LET result == get_domain_ptr(map, domain_labels)
        after == insert(map, domain_labels, base_offset)
    IN  IF result.kind = "Panic"
        THEN [kind |-> "Panic", compressed_bytes |-> << >>,
              new_offset |-> base_offset, map |-> map]
        ELSE IF result.kind = "Some"
        THEN [kind |-> "Ok",
              compressed_bytes |->
                  labels_to_bytes(result.remaining_labels)
                      \o DomainPointer_to_bytes(result.offset) \o <<0>>,
              new_offset |->
                  u16_add(u16_add(base_offset,
                                  labels_len_bytes(result.remaining_labels)),
                          DomainPointer_SIZE + 1),
              map |-> after.map]
        ELSE [kind |-> "Ok",
              compressed_bytes |-> DomainName_to_bytes(domain_labels),
              new_offset |-> u16_add(Len(DomainName_to_bytes(domain_labels)), base_offset),
              map |-> after.map]

DomainName_to_bytes_compressed(domain_labels, base_offset, map) ==
    LET result == get_domain_ptr(map, domain_labels)
        after == insert(map, domain_labels, base_offset)
    IN  IF result.kind = "Panic"
        THEN [kind |-> "Panic", compressed_bytes |-> << >>,
              new_offset |-> base_offset, map |-> map]
        ELSE IF result.kind = "Some"
        THEN IF result.remaining_labels = << >>
             THEN [kind |-> "Ok",
                   compressed_bytes |-> DomainPointer_to_bytes(result.offset),
                   new_offset |-> u16_add(base_offset, DomainPointer_SIZE),
                   map |-> after.map]
             ELSE [kind |-> "Ok",
                   compressed_bytes |->
                       labels_to_bytes(result.remaining_labels)
                           \o DomainPointer_to_bytes(result.offset),
                   new_offset |->
                       u16_add(u16_add(base_offset,
                                       labels_len_bytes(result.remaining_labels)),
                               DomainPointer_SIZE),
                   map |-> after.map]
        ELSE [kind |-> "Ok",
              compressed_bytes |-> DomainName_to_bytes(domain_labels),
              new_offset |-> u16_add(Len(DomainName_to_bytes(domain_labels)), base_offset),
              map |-> after.map]

(***************************************************************************)
(* Compressed parsing of a DomainName.                                     *)
(***************************************************************************)
ParseOk(labels, new_offset) ==
    [kind |-> "Ok", labels |-> labels, new_offset |-> new_offset, err |-> "None"]

ParseErr(err) ==
    [kind |-> "Err", labels |-> << >>, new_offset |-> 0, err |-> err]

\* A slice start beyond the end of the buffer aborts the program.
ParsePanic ==
    [kind |-> "Panic", labels |-> << >>, new_offset |-> 0, err |-> "None"]

RECURSIVE parse_compressed_loop(_, _, _)
parse_compressed_loop(full_message_bytes, domain_labels, new_offset) ==
    IF new_offset > Len(full_message_bytes) THEN ParsePanic
    ELSE
    LET bytes_to_parse == Drop(full_message_bytes, new_offset)
        ptr == DomainPointer_parse(bytes_to_parse)
        lbl == DomainLabel_parse(bytes_to_parse)
    IN  IF ptr.ok
        THEN IF ptr.offset > Len(full_message_bytes) THEN ParsePanic
             ELSE LET domain == DomainName_parse(Drop(full_message_bytes, ptr.offset))
                  IN  IF domain.ok
                      THEN ParseOk(domain_labels \o domain.labels,
                                   u16_add(new_offset, DomainPointer_SIZE))
                      ELSE ParseErr("InvalidDomainPointer")
        ELSE IF ~lbl.ok THEN ParseErr("InvalidByteStructure")
        ELSE IF DomainLabel_is_empty(lbl.label)
             THEN ParseOk(Append(domain_labels, lbl.label),
                          u16_add(new_offset, DomainLabel_len_bytes(lbl.label)))
             ELSE parse_compressed_loop(full_message_bytes,
                                        Append(domain_labels, lbl.label),
                                        u16_add(new_offset, DomainLabel_len_bytes(lbl.label)))

DomainName_parse_compressed(full_message_bytes, base_offset) ==
    parse_compressed_loop(full_message_bytes, << >>, base_offset)

(***************************************************************************)
(* Question and MessageQuestions.                                          *)
(***************************************************************************)
Qtype_try_from(value) == (value >= 1 /\ value <= 16) \/ (value >= 252 /\ value <= 255)

ResourceRecordQClass_try_from(value) == (value >= 1 /\ value <= 4) \/ value = 255

parse_u16(bytes) ==
    IF Len(bytes) < 2 THEN [ok |-> FALSE, value |-> 0, rest |-> << >>]
    ELSE [ok |-> TRUE, value |-> bytes[1] * 256 + bytes[2], rest |-> Drop(bytes, 2)]

Question_new(qname, qtype, qclass) ==
    [qname |-> qname, qtype |-> qtype, qclass |-> qclass]

\* Variant: the new offset is the name's, without the 4 octets of QTYPE
\* and QCLASS.
Question_to_bytes_compressed_name_offset(question, base_offset, map) ==
    LET result == DomainName_to_bytes_compressed(question.qname, base_offset, map)
    IN  IF result.kind = "Panic" THEN result
        ELSE [kind |-> "Ok",
              compressed_bytes |-> result.compressed_bytes
                                       \o be_u16(question.qtype)
                                       \o be_u16(question.qclass),
              new_offset |-> result.new_offset,
              map |-> result.map]

Question_to_bytes_compressed(question, base_offset, map) ==
    LET result == DomainName_to_bytes_compressed(question.qname, base_offset, map)
    IN  IF result.kind = "Panic" THEN result
        ELSE [kind |-> "Ok",
              compressed_bytes |-> result.compressed_bytes
                                       \o be_u16(question.qtype)
                                       \o be_u16(question.qclass),
              new_offset |-> u16_add(result.new_offset, 4),
              map |-> result.map]

QuestionOk(question, new_offset) ==
    [kind |-> "Ok", question |-> question, new_offset |-> new_offset]

QuestionErr ==
    [kind |-> "Err", question |-> Question_new(<< >>, 0, 0), new_offset |-> 0]

QuestionPanic ==
    [kind |-> "Panic", question |-> Question_new(<< >>, 0, 0), new_offset |-> 0]

\* Every failure of a part surfaces as InvalidByteStructure.
Question_parse_compressed(full_message_bytes, base_offset) ==
    LET name == DomainName_parse_compressed(full_message_bytes, base_offset)
        qtype == parse_u16(Drop(full_message_bytes, name.new_offset))
        qclass == parse_u16(qtype.rest)
    IN  IF name.kind = "Panic" THEN QuestionPanic
        ELSE IF name.kind = "Err" THEN QuestionErr
        ELSE IF name.new_offset > Len(full_message_bytes) THEN QuestionPanic
        ELSE IF ~qtype.ok THEN QuestionErr
        ELSE IF ~Qtype_try_from(qtype.value) THEN QuestionErr
        ELSE IF ~qclass.ok THEN QuestionErr
        ELSE IF ~ResourceRecordQClass_try_from(qclass.value) THEN QuestionErr
        ELSE QuestionOk(Question_new(name.labels, qtype.value, qclass.value),
                        u16_add(name.new_offset, 4))

RECURSIVE MessageQuestions_parse_loop(_, _, _, _)
MessageQuestions_parse_loop(full_message_bytes, questions, offset_to_return, left) ==
    IF left = 0
    THEN [kind |-> "Ok", questions |-> questions, new_offset |-> offset_to_return]
    ELSE LET q == Question_parse_compressed(full_message_bytes, offset_to_return)
         IN  IF q.kind # "Ok"
             THEN [kind |-> q.kind, questions |-> << >>, new_offset |-> 0]
             ELSE MessageQuestions_parse_loop(full_message_bytes,
                                              Append(questions, q.question),
                                              q.new_offset, left - 1)

MessageQuestions_parse_compressed(full_message_bytes, base_offset, parse_count) ==
    MessageQuestions_parse_loop(full_message_bytes, << >>, base_offset, parse_count)

\* The flat_map closure of MessageQuestions::to_bytes_compressed applied to
\* questions[i..]: each question is serialized at the rolling offset, which
\* becomes the question's new_offset.
RECURSIVE MessageQuestions_to_bytes_compressed_loop(_, _, _, _, _)
MessageQuestions_to_bytes_compressed_loop(questions, i, rolling, map, question_bytes) ==
    IF i > Len(questions)
    THEN [kind |-> "Ok", compressed_bytes |-> question_bytes,
          new_offset |-> rolling, map |-> map]
    ELSE LET result == Question_to_bytes_compressed(questions[i], rolling, map)
         IN  IF result.kind = "Panic" THEN result
             ELSE MessageQuestions_to_bytes_compressed_loop(
                      questions, i + 1, result.new_offset, result.map,
                      question_bytes \o result.compressed_bytes)

MessageQuestions_to_bytes_compressed(questions, base_offset, map) ==
    MessageQuestions_to_bytes_compressed_loop(questions, 1, base_offset, map, << >>)

(***************************************************************************)
(* The compression session: one LabelMap, one message being built, each    *)
(* call's new_offset fed into the next call.                               *)
(***************************************************************************)
SessionNames == SeqsUpTo(SessionLabels, MaxLabels)

NoCall == [op |-> "none"]

NotDecoded == [kind |-> "none"]

Init ==
    /\ label_map = LabelMap_new
    /\ message = << >>
    /\ rolling_offset = 0
    /\ items = << >>
    /\ call = NoCall
    /\ decoded = NotDecoded
    /\ ops = 0
    /\ buf = << >>
    /\ text = << >>

\* The record of one to_bytes_compressed call: the name, the offset and map it
\* was given, what DomainName::to_bytes_compressed returned for the name, and
\* what the whole call returned.
CallRecord(name, name_out, out) ==
    [op |-> "to_bytes_compressed", labels |-> name,
     base_offset |-> rolling_offset, pre_map |-> label_map,
     name_bytes |-> name_out.compressed_bytes,
     name_new_offset |-> name_out.new_offset,
     compressed_bytes |-> out.compressed_bytes,
     new_offset |-> out.new_offset]

SessionKind(kind) == IF items = << >> THEN TRUE ELSE items[1].kind = kind

\* name.to_bytes_compressed(rolling_offset, &mut label_map)
SerializeName ==
    \E name \in SessionNames :
        LET out == DomainName_to_bytes_compressed(name, rolling_offset, label_map)
        IN  /\ Len(items) < MaxItems
            /\ SessionKind("name")
            /\ decoded = NotDecoded
            /\ out.kind = "Ok"
            /\ label_map' = out.map
            /\ message' = message \o out.compressed_bytes
            /\ rolling_offset' = out.new_offset
            /\ items' = Append(items, [kind |-> "name", labels |-> name])
            /\ call' = CallRecord(name, out, out)
            /\ UNCHANGED <<decoded, ops, buf, text>>

\* question.to_bytes_compressed(rolling_offset, &mut label_map)
SerializeQuestion ==
    \E name \in SessionNames :
        LET q == Question_new(name, Qtype_A, ResourceRecordQClass_In)
            out == Question_to_bytes_compressed(q, rolling_offset, label_map)
            name_out == DomainName_to_bytes_compressed(name, rolling_offset, label_map)
        IN  /\ Len(items) < MaxItems
            /\ SessionKind("question")
            /\ decoded = NotDecoded
            /\ out.kind = "Ok"
            /\ label_map' = out.map
            /\ message' = message \o out.compressed_bytes
            /\ rolling_offset' = out.new_offset
            /\ items' = Append(items, [kind |-> "question", labels |-> name])
            /\ call' = CallRecord(name, name_out, out)
            /\ UNCHANGED <<decoded, ops, buf, text>>

\* message_questions.to_bytes_compressed(rolling_offset, &mut label_map)
SerializeMessageQuestions ==
    /\ Len(items) < MaxItems
    /\ SessionKind("question")
    /\ decoded = NotDecoded
    /\ \E names \in SeqsUpTo(SessionNames, MaxItems - Len(items)) :
        LET questions == [i \in 1..Len(names) |->
                              Question_new(names[i], Qtype_A, ResourceRecordQClass_In)]
            out == MessageQuestions_to_bytes_compressed(questions, rolling_offset,
                                                        label_map)
        IN  /\ out.kind = "Ok"
            /\ label_map' = out.map
            /\ message' = message \o out.compressed_bytes
            /\ rolling_offset' = out.new_offset
            /\ items' = items \o [i \in 1..Len(names) |->
                                      [kind |-> "question", labels |-> names[i]]]
            /\ call' = [op |-> "questions_to_bytes_compressed",
                        questions |-> questions,
                        base_offset |-> rolling_offset, pre_map |-> label_map,
                        compressed_bytes |-> out.compressed_bytes,
                        new_offset |-> out.new_offset]
    /\ UNCHANGED <<decoded, ops, buf, text>>

AllQuestions == \A i \in 1..Len(items) : items[i].kind = "question"

\* MessageQuestions::parse_compressed(&message, 0, Some(number of questions))
DecodeQuestions ==
    /\ items # << >>
    /\ AllQuestions
    /\ decoded = NotDecoded
    /\ decoded' = MessageQuestions_parse_compressed(message, 0, Len(items))
    /\ UNCHANGED <<label_map, message, rolling_offset, items, call, ops, buf, text>>

Next ==
    \/ SerializeName
    \/ SerializeQuestion
    \/ SerializeMessageQuestions
    \/ DecodeQuestions

Spec == Init /\ [][Next]_vars

(***************************************************************************)
(* The LabelMap on its own: insert, get_domain_ptr and clear applied to    *)
(* any label sequences at any offsets.                                     *)
(***************************************************************************)
MapNames == SeqsUpTo(SessionLabels, MaxLabels + 1)

\* The offsets given to insert (0, and the 29 of test_get_domain_ptr).
MapOffsets == { 0, 29 }

MapInsert ==
    \E labels \in MapNames, offset \in MapOffsets :
        LET out == insert(label_map, labels, offset)
        IN  /\ ops < MaxMapOps
            /\ out.kind = "Ok"
            /\ label_map' = out.map
            /\ ops' = ops + 1
            /\ call' = [op |-> "insert", labels |-> labels, offset |-> offset,
                        pre_map |-> label_map,
                        inserted_records |-> out.inserted_records,
                        new_offset |-> out.new_offset,
                        remaining_labels |-> out.remaining_labels]
            /\ UNCHANGED <<message, rolling_offset, items, decoded, buf, text>>

MapGetDomainPtr ==
    \E labels \in MapNames :
        LET out == get_domain_ptr(label_map, labels)
        IN  /\ ops < MaxMapOps
            /\ ops' = ops + 1
            /\ call' = [op |-> "get_domain_ptr", labels |-> labels,
                        pre_map |-> label_map, kind |-> out.kind,
                        offset |-> out.offset,
                        remaining_labels |-> out.remaining_labels]
            /\ UNCHANGED <<label_map, message, rolling_offset, items,
                           decoded, buf, text>>

MapClear ==
    /\ ops < MaxMapOps
    /\ label_map # NoMap
    /\ label_map' = clear(label_map)
    /\ ops' = ops + 1
    /\ call' = [op |-> "clear", pre_map |-> label_map]
    /\ UNCHANGED <<message, rolling_offset, items, decoded, buf, text>>

\* name.to_bytes_compressed(offset, &mut label_map)
MapToBytesCompressed ==
    \E labels \in MapNames, offset \in MapOffsets :
        LET out == DomainName_to_bytes_compressed(labels, offset, label_map)
        IN  /\ ops < MaxMapOps
            /\ out.kind = "Ok"
            /\ label_map' = out.map
            /\ ops' = ops + 1
            /\ call' = [op |-> "name_to_bytes_compressed", labels |-> labels,
                        offset |-> offset, pre_map |-> label_map,
                        compressed_bytes |-> out.compressed_bytes,
                        new_offset |-> out.new_offset]
            /\ UNCHANGED <<message, rolling_offset, items, decoded, buf, text>>

NextMap == MapInsert \/ MapGetDomainPtr \/ MapToBytesCompressed \/ MapClear

SpecMap == Init /\ [][NextMap]_vars

(***************************************************************************)
(* The decoder on its own: a buffer is received octet by octet and a name  *)
(* is parsed from it at any offset within it.                              *)
(***************************************************************************)
Receive ==
    \E octet \in BufOctets :
        /\ Len(buf) < MaxBuf
        /\ call = NoCall
        /\ buf' = Append(buf, octet)
        /\ UNCHANGED <<label_map, message, rolling_offset, items, call,
                       decoded, ops, text>>

\* DomainName::parse_compressed(&buf, base_offset)
ParseCompressed ==
    \E base_offset \in 0..Len(buf) :
        LET out == DomainName_parse_compressed(buf, base_offset)
        IN  /\ call' = [op |-> "parse_compressed", base_offset |-> base_offset,
                        kind |-> out.kind, labels |-> out.labels,
                        new_offset |-> out.new_offset, err |-> out.err]
            /\ UNCHANGED <<label_map, message, rolling_offset, items, decoded,
                           ops, buf, text>>

NextDecode == Receive \/ ParseCompressed

SpecDecode == Init /\ [][NextDecode]_vars

(***************************************************************************)
(* The plain codec: a text is typed, a DomainName is built from it,        *)
(* serialized with to_bytes and parsed back with parse.                    *)
(***************************************************************************)
TypeChar ==
    \E ch \in TextChars :
        /\ Len(text) < MaxText
        /\ call = NoCall
        /\ text' = Append(text, ch)
        /\ UNCHANGED <<label_map, message, rolling_offset, items, call,
                       decoded, ops, buf>>

\* DomainName::try_from(text), then DomainName::parse(&name.to_bytes())
RoundTrip ==
    LET name == DomainName_try_from(text)
        bytes == DomainName_to_bytes(name.labels)
        back == DomainName_parse(bytes)
    IN  /\ call = NoCall
        /\ call' = IF name.ok
                   THEN [op |-> "round_trip", labels |-> name.labels,
                         bytes |-> bytes, parse_ok |-> back.ok,
                         parsed |-> back.labels, rest |-> back.rest]
                   ELSE [op |-> "rejected", err |-> name.err]
        /\ UNCHANGED <<label_map, message, rolling_offset, items, decoded,
                       ops, buf, text>>

NextPlain == TypeChar \/ RoundTrip

SpecPlain == Init /\ [][NextPlain]_vars

(***************************************************************************)
(* Properties of the compression session.                                  *)
(***************************************************************************)
Serialized == call.op = "to_bytes_compressed"

KeySuffixes(map, labels) == { i \in 1..Len(labels) : Suffix(labels, i) \in DOMAIN map }

\* Index of the longest suffix of labels that is a key of map; 0 when none is.
LongestKey(map, labels) ==
    IF KeySuffixes(map, labels) = {} THEN 0
    ELSE CHOOSE i \in KeySuffixes(map, labels) :
             \A j \in KeySuffixes(map, labels) : i <= j

PointerOctets(offset) == << 192 + (offset \div 256), offset % 256 >>

BeginsWith(bytes, offset, prefix) ==
    /\ offset + Len(prefix) <= Len(bytes)
    /\ SubSeq(bytes, offset + 1, offset + Len(prefix)) = prefix

\* The octets of bytes from offset on spell the labels: each label literally,
\* or through a pointer followed to its target, and then the end of the name.
RECURSIVE Encodes(_, _, _, _)
Encodes(bytes, offset, labels, hops) ==
    IF offset >= Len(bytes) THEN FALSE
    ELSE IF bytes[offset + 1] >= 192
    THEN /\ hops > 0
         /\ offset + 1 < Len(bytes)
         /\ Encodes(bytes, (bytes[offset + 1] - 192) * 256 + bytes[offset + 2],
                    labels, hops - 1)
    ELSE IF labels = << >> THEN bytes[offset + 1] = 0
    ELSE /\ BeginsWith(bytes, offset, DomainLabel_to_bytes(Head(labels)))
         /\ Encodes(bytes, offset + DomainLabel_len_bytes(Head(labels)),
                    Tail(labels), hops)

\* The target of the pointer that ends the serialized name, or -1.
RECURSIVE EmittedPointer(_, _)
EmittedPointer(bytes, i) ==
    IF i > Len(bytes) THEN -1
    ELSE IF bytes[i] >= 192 THEN (bytes[i] - 192) * 256 + bytes[i + 1]
    ELSE IF bytes[i] = 0 THEN -1
    ELSE EmittedPointer(bytes, i + bytes[i] + 1)

\* C1: questions serialized one after another from offset 0 with one LabelMap
\* are reconstructed by MessageQuestions::parse_compressed over the whole
\* message: it succeeds, every name equals its original, and the offset it
\* returns is the length of the message.
C1_CompressionRoundTrip ==
    decoded.kind # "none" =>
        /\ decoded.kind = "Ok"
        /\ Len(decoded.questions) = Len(items)
        /\ \A i \in 1..Len(items) :
               DomainName_eq(decoded.questions[i].qname, items[i].labels)
        /\ decoded.new_offset = Len(message)

\* C4: every entry (suffix -> offset) of the LabelMap names a position of the
\* message where the literal wire form of the suffix's first label stands and
\* from which exactly that suffix is spelled.
C4_MapOffsetsAreMessagePositions ==
    \A k \in DOMAIN label_map :
        /\ BeginsWith(message, label_map[k], DomainLabel_to_bytes(Head(k)))
        /\ Encodes(message, label_map[k], k, MaxItems)

C4_Witness ==
    /\ Len(items) = MaxItems
    /\ \E k \in DOMAIN label_map :
           /\ label_map[k] > 0
           /\ Len(k) > 1
           /\ EmittedPointer(message, label_map[k] + 1) >= 0

\* C7: when no suffix of the name is a key of the map, the name is emitted as
\* its labels' wire forms followed by the root octet, and the new offset is
\* the base offset plus that length.
C7_NoMatchIsPlain ==
    (Serialized /\ LongestKey(call.pre_map, call.labels) = 0) =>
        /\ call.name_bytes = labels_to_bytes(call.labels) \o <<0>>
        /\ call.name_new_offset = call.base_offset + labels_len_bytes(call.labels) + 1

C7_Witness ==
    /\ Serialized
    /\ LongestKey(call.pre_map, call.labels) = 0
    /\ call.pre_map # NoMap
    /\ Len(call.labels) > 1

C9_PointerTargetsEarlierOffset ==
    (Serialized /\ EmittedPointer(call.name_bytes, 1) >= 0) =>
        EmittedPointer(call.name_bytes, 1) < call.base_offset

C9_Witness ==
    /\ Serialized
    /\ EmittedPointer(call.name_bytes, 1) >= 0
    /\ EmittedPointer(call.name_bytes, 1) > 0
    /\ call.labels \notin DOMAIN call.pre_map

(***************************************************************************)
(* Properties of the LabelMap.                                             *)
(***************************************************************************)
\* C5: get_domain_ptr returns the pointer of the longest suffix of the labels
\* that is a key, with exactly the leading labels that suffix does not cover,
\* and returns None only when no suffix is a key.
C5_LongestSuffixPreferred ==
    call.op = "get_domain_ptr" =>
        LET k == LongestKey(call.pre_map, call.labels)
        IN  IF k = 0 THEN call.kind = "None"
            ELSE /\ call.kind = "Some"
                 /\ call.offset = call.pre_map[Suffix(call.labels, k)]
                 /\ call.remaining_labels = Take(call.labels, k - 1)

\* "com" at X and "google.com" at Y, then "sheets.google.com": two suffixes
\* are keys at different offsets and one leading label is uncovered.
C5_Witness ==
    /\ call.op = "get_domain_ptr"
    /\ Len(call.labels) = 3
    /\ Suffix(call.labels, 1) \notin DOMAIN call.pre_map
    /\ Suffix(call.labels, 2) \in DOMAIN call.pre_map
    /\ Suffix(call.labels, 3) \in DOMAIN call.pre_map
    /\ call.pre_map[Suffix(call.labels, 2)] # call.pre_map[Suffix(call.labels, 3)]
    /\ call.kind = "Some"
    /\ call.remaining_labels = Take(call.labels, 1)

\* C6: an insert never changes the offset stored for a suffix that is already
\* a key, and inserting labels whose full sequence is already a key inserts
\* nothing and leaves the map unchanged.
C6_FirstOffsetKept ==
    [][ call'.op = "insert" =>
            /\ \A k \in DOMAIN label_map :
                   k \in DOMAIN label_map' /\ label_map'[k] = label_map[k]
            /\ (call'.labels \in DOMAIN label_map =>
                    /\ label_map' = label_map
                    /\ call'.inserted_records = 0) ]_vars

C6_Witness ==
    /\ call.op = "insert"
    /\ call.labels \in DOMAIN call.pre_map
    /\ call.pre_map[call.labels] # call.offset
    /\ call.inserted_records = 0

(***************************************************************************)
(* Properties of the decoder.                                              *)
(***************************************************************************)
\* The offset of the first pointer met when labels are read from offset on,
\* or -1 when the labels end (or break off) without one.
RECURSIVE PointerAt(_, _)
PointerAt(bytes, offset) ==
    IF offset >= Len(bytes) THEN -1
    ELSE IF bytes[offset + 1] >= 192
    THEN IF offset + 1 < Len(bytes) THEN offset ELSE -1
    ELSE IF bytes[offset + 1] = 0 THEN -1
    ELSE IF offset + 1 + bytes[offset + 1] > Len(bytes) THEN -1
    ELSE PointerAt(bytes, offset + 1 + bytes[offset + 1])

PointerTarget(bytes, at) == (bytes[at + 1] - 192) * 256 + bytes[at + 2]

\* The labels of the name at offset with every pointer followed, at most
\* hops of them.
RECURSIVE ChainLabels(_, _, _)
ChainLabels(bytes, offset, hops) ==
    IF offset >= Len(bytes) THEN [ok |-> FALSE, labels |-> << >>]
    ELSE IF bytes[offset + 1] >= 192
    THEN IF hops = 0 \/ offset + 1 >= Len(bytes)
         THEN [ok |-> FALSE, labels |-> << >>]
         ELSE ChainLabels(bytes, PointerTarget(bytes, offset), hops - 1)
    ELSE IF bytes[offset + 1] = 0 THEN [ok |-> TRUE, labels |-> << >>]
    ELSE IF offset + 1 + bytes[offset + 1] > Len(bytes)
    THEN [ok |-> FALSE, labels |-> << >>]
    ELSE LET more == ChainLabels(bytes, offset + 1 + bytes[offset + 1], hops)
         IN  [ok |-> more.ok,
              labels |-> IF more.ok
                         THEN << SubSeq(bytes, offset + 2, offset + 1 + bytes[offset + 1]) >>
                                  \o more.labels
                         ELSE << >>]

\* The labels without the empty labels the parsers keep at the end.
StripRoot(labels) == SelectSeq(labels, LAMBDA l : l # << >>)

Parsed == call.op = "parse_compressed"

\* The first pointer of the name being parsed leads to one or more labels
\* that end in a second pointer, and the whole chain ends in a root label.
MultiHop ==
    /\ Parsed
    /\ PointerAt(buf, call.base_offset) >= 0
    /\ PointerTarget(buf, PointerAt(buf, call.base_offset)) < Len(buf)
    /\ PointerAt(buf, PointerTarget(buf, PointerAt(buf, call.base_offset)))
           > PointerTarget(buf, PointerAt(buf, call.base_offset))
    /\ ChainLabels(buf, call.base_offset, MaxBuf).ok

\* C2: when the pointer's target labels end in another pointer, the decoder
\* follows the whole chain and returns the labels before the first pointer
\* followed by all labels reached through every hop.
C2_MultiHopFollowed ==
    MultiHop =>
        /\ call.kind = "Ok"
        /\ StripRoot(call.labels) = ChainLabels(buf, call.base_offset, MaxBuf).labels

\* C3: a pointer whose target offset is at or beyond the length of the buffer
\* makes parse_compressed return InvalidDomainPointer, never abort.
C3_OutOfBoundsPointerIsError ==
    ( /\ Parsed
      /\ PointerAt(buf, call.base_offset) >= 0
      /\ PointerTarget(buf, PointerAt(buf, call.base_offset)) >= Len(buf) ) =>
        /\ call.kind = "Err"
        /\ call.err = "InvalidDomainPointer"

(***************************************************************************)
(* Properties of the plain codec.                                          *)
(***************************************************************************)
\* C10: for every DomainName n built from text, parse(n.to_bytes()) succeeds,
\* returns a name equal to n and leaves an empty remainder.
C10_PlainRoundTrip ==
    call.op = "round_trip" =>
        /\ call.parse_ok
        /\ DomainName_eq(call.parsed, call.labels)
        /\ call.rest = << >>

(***************************************************************************)
(* Name equality: two DomainName values are drawn and compared with ==.    *)
(***************************************************************************)
\* The labels the compared names are made of: "a", "A", "b".
EqLabels == { <<97>>, <<65>>, <<98>> }

EqNames == SeqsUpTo(EqLabels, MaxLabels)

InitEq ==
    /\ label_map = NoMap
    /\ message = << >>
    /\ rolling_offset = 0
    /\ items \in EqNames \X EqNames
    /\ call = NoCall
    /\ decoded = NotDecoded
    /\ ops = 0
    /\ buf = << >>
    /\ text = << >>

\* items[1] == items[2]
CompareNames ==
    /\ call = NoCall
    /\ call' = [op |-> "eq", self |-> items[1], other |-> items[2],
                result |-> DomainName_eq(items[1], items[2])]
    /\ UNCHANGED <<label_map, message, rolling_offset, items, decoded, ops,
                   buf, text>>

NextEq == CompareNames

SpecEq == InitEq /\ [][NextEq]_vars

\* Two label sequences match position by position, case-insensitively.
SameLabels(a, b) ==
    /\ Len(a) = Len(b)
    /\ \A i \in 1..Len(a) : DomainLabel_eq(a[i], b[i])

\* C11: two names compare equal exactly when their label sequences match
\* position by position under case-insensitive label equality; names that
\* differ in some label position are never equal.
C11_EqualityIsPositionWise ==
    call.op = "eq" => (call.result <=> SameLabels(call.self, call.other))

(***************************************************************************)
(* Label construction: a label text is typed (a run of one character, then *)
(* single characters) and DomainLabel::try_from is applied to it.          *)
(***************************************************************************)
TypeRun ==
    \E ch \in TextChars, n \in 1..MaxRun :
        /\ text = << >>
        /\ call = NoCall
        /\ text' = [i \in 1..n |-> ch]
        /\ UNCHANGED <<label_map, message, rolling_offset, items, call,
                       decoded, ops, buf>>

TypeTail ==
    \E ch \in TextChars :
        /\ text # << >>
        /\ call = NoCall
        /\ ops < MaxTail
        /\ text' = Append(text, ch)
        /\ ops' = ops + 1
        /\ UNCHANGED <<label_map, message, rolling_offset, items, call,
                       decoded, buf>>

\* DomainLabel::try_from(text)
ConstructLabel ==
    LET r == DomainLabel_try_from(text) IN
        /\ call = NoCall
        /\ call' = [op |-> "label_try_from", text |-> text, ok |-> r.ok,
                    label |-> r.label, err |-> r.err]
        /\ UNCHANGED <<label_map, message, rolling_offset, items, decoded,
                       ops, buf, text>>

NextLabel == TypeRun \/ TypeTail \/ ConstructLabel

SpecLabel == Init /\ [][NextLabel]_vars

\* The character invariant of a non-empty label text.
CharacterInvariant(t) ==
    /\ is_alphabetic(t[1])
    /\ is_alphanumeric(t[Len(t)])
    /\ \A i \in 2..(Len(t) - 1) : is_alphanumeric(t[i]) \/ t[i] = 45

\* C12: every accepted label has an alphabetic first character, an
\* alphanumeric last character and only alphanumeric or hyphen characters in
\* between (the empty text giving the root label); a text of at most 63
\* characters violating this is rejected with InvalidStartChar,
\* InvalidEndChar or InvalidChar.
C12_LabelCharacterInvariant ==
    (call.op = "label_try_from" /\ Len(call.text) \in 1..MAX_LABEL_LENGTH) =>
        IF CharacterInvariant(call.text)
        THEN call.ok /\ call.label = call.text
        ELSE /\ ~call.ok
             /\ call.err \in {"InvalidStartChar", "InvalidEndChar", "InvalidChar"}

LongLens == { 1, 3, 63 }

LongLabel(n) == [i \in 1..n |-> 97]

\* The dotted text of a label sequence.
RECURSIVE DottedText(_)
DottedText(labels) ==
    IF labels = << >> THEN << >>
    ELSE IF Len(labels) = 1 THEN labels[1]
    ELSE labels[1] \o <<46>> \o DottedText(Tail(labels))

AddLabel ==
    \E n \in LongLens :
        /\ Len(items) < MaxLongLabels
        /\ call = NoCall
        /\ items' = Append(items, LongLabel(n))
        /\ UNCHANGED <<label_map, message, rolling_offset, call, decoded,
                       ops, buf, text>>

\* DomainName::try_from(text of items)
NameFromText ==
    LET r == DomainName_try_from(DottedText(items)) IN
        /\ items # << >>
        /\ call = NoCall
        /\ call' = [op |-> "name_from_text", ok |-> r.ok, labels |-> r.labels,
                    err |-> r.err]
        /\ UNCHANGED <<label_map, message, rolling_offset, items, decoded,
                       ops, buf, text>>

\* DomainName::parse(wire form of items)
NameFromBytes ==
    LET r == DomainName_parse(DomainName_to_bytes(items)) IN
        /\ items # << >>
        /\ call = NoCall
        /\ call' = [op |-> "name_from_bytes", ok |-> r.ok, labels |-> r.labels,
                    err |-> IF r.ok THEN "Ok" ELSE "InvalidByteStructure"]
        /\ UNCHANGED <<label_map, message, rolling_offset, items, decoded,
                       ops, buf, text>>

\* DomainName::parse_compressed(wire form of items, 0)
NameFromMessage ==
    LET r == DomainName_parse_compressed(DomainName_to_bytes(items), 0) IN
        /\ items # << >>
        /\ call = NoCall
        /\ call' = [op |-> "name_from_message", ok |-> r.kind = "Ok",
                    labels |-> r.labels, err |-> r.err]
        /\ UNCHANGED <<label_map, message, rolling_offset, items, decoded,
                       ops, buf, text>>

NextLong == AddLabel \/ NameFromText \/ NameFromBytes \/ NameFromMessage

SpecLong == Init /\ [][NextLong]_vars

\* C13: every DomainName produced from text, from bytes or from a message
\* has label lengths summing to at most 255.
C13_NameLengthInvariant ==
    ( /\ call.op \in {"name_from_text", "name_from_bytes", "name_from_message"}
      /\ call.ok ) =>
        total_label_len(call.labels) <= DOMAIN_NAME_LENGTH_LIMIT

(***************************************************************************)
(* The plain parser on its own: a buffer is received octet by octet and    *)
(* DomainName::parse is applied to it.                                     *)
(***************************************************************************)
\* DomainName::parse(&buf)
ParsePlain ==
    LET r == DomainName_parse(buf) IN
        /\ call = NoCall
        /\ call' = [op |-> "parse", ok |-> r.ok, labels |-> r.labels,
                    rest |-> r.rest]
        /\ UNCHANGED <<label_map, message, rolling_offset, items, decoded,
                       ops, buf, text>>

\* name.to_bytes() of the name DomainName::parse returned
Reserialize ==
    /\ call.op = "parse"
    /\ call.ok
    /\ call' = [op |-> "reserialize", labels |-> call.labels,
                consumed |-> Take(buf, Len(buf) - Len(call.rest)),
                bytes |-> DomainName_to_bytes(call.labels)]
    /\ UNCHANGED <<label_map, message, rolling_offset, items, decoded,
                   ops, buf, text>>

NextParse == Receive \/ ParsePlain \/ Reserialize

SpecParse == Init /\ [][NextParse]_vars

\* A zero-length label stands at a label boundary of the buffer.
RECURSIVE HasRootLabel(_)
HasRootLabel(bytes) ==
    IF bytes = << >> THEN FALSE
    ELSE IF bytes[1] = 0 THEN TRUE
    ELSE IF Len(bytes) - 1 < bytes[1] THEN FALSE
    ELSE HasRootLabel(Drop(bytes, bytes[1] + 1))

\* C18: DomainName::parse fails for every buffer that is exhausted before a
\* zero-length root label is found; a name it returns is never truncated:
\* it ends with the root label and its wire form followed by the remainder
\* is the buffer.
C18_MissingRootIsRejected ==
    call.op = "parse" =>
        /\ ~HasRootLabel(buf) => ~call.ok
        /\ call.ok =>
            /\ call.labels # << >>
            /\ DomainLabel_is_empty(call.labels[Len(call.labels)])
            /\ labels_to_bytes(call.labels) \o call.rest = buf

C18_Witness ==
    /\ call.op = "parse"
    /\ Len(buf) >= 4
    /\ buf[1] = 1
    /\ buf[3] = 1
    /\ ~HasRootLabel(buf)
    /\ ~call.ok

(***************************************************************************)
(* DomainPointer on its own: a pointer is made from an offset, serialized  *)
(* and parsed back; received octets are parsed as a pointer.               *)
(***************************************************************************)
\* Offsets a pointer is made from: the values of test_parse_domain_pointer,
\* the ends of the 14-bit range and offsets beyond it.
PointerOffsets == { 0, 7, 3819, 16383, 16384, 16391, 49152, 65535 }

\* DomainPointer::parse(&DomainPointer::new(offset).to_bytes())
PointerRoundTrip ==
    \E offset \in PointerOffsets :
        LET bytes == DomainPointer_to_bytes(offset)
            back == DomainPointer_parse(bytes)
        IN  /\ call = NoCall
            /\ buf = << >>
            /\ call' = [op |-> "pointer_round_trip", offset |-> offset,
                        bytes |-> bytes, ok |-> back.ok,
                        parsed |-> back.offset, rest |-> back.rest]
            /\ UNCHANGED <<label_map, message, rolling_offset, items,
                           decoded, ops, buf, text>>

\* DomainPointer::parse(&buf)
PointerParse ==
    LET r == DomainPointer_parse(buf) IN
        /\ call = NoCall
        /\ call' = [op |-> "pointer_parse", ok |-> r.ok, parsed |-> r.offset,
                    rest |-> r.rest]
        /\ UNCHANGED <<label_map, message, rolling_offset, items, decoded,
                       ops, buf, text>>

NextPointer == Receive \/ PointerRoundTrip \/ PointerParse

SpecPointer == Init /\ [][NextPointer]_vars

\* C14: for every offset the encoder is given, to_bytes yields two octets
\* whose top two bits are 11 and DomainPointer::parse of them returns that
\* same offset; parse fails when the top two bits are not 11.
C14_PointerNotTruncated ==
    /\ call.op = "pointer_round_trip" =>
        /\ Len(call.bytes) = DomainPointer_SIZE
        /\ call.bytes[1] \div 64 = 3
        /\ call.ok
        /\ call.parsed = call.offset
        /\ call.rest = << >>
    /\ (call.op = "pointer_parse" /\ buf # << >> /\ buf[1] \div 64 # 3) =>
        ~call.ok

(***************************************************************************)
(* Message header.  A Header is a record of its twelve fields; the members *)
(* of MessageType, QueryOpcode and ResponseCode are named by strings.      *)
(***************************************************************************)
MessageType == { "Question", "Answer" }

QueryOpcode == { "Query", "Iquery", "Status", "Reserved" }

ResponseCode == { "NoError", "FormatError", "ServerFailure", "NameError",
                  "NotImplemented", "Refused", "Reserved" }

\* The discriminants: `self.qr as u16`, `self.opcode as u16`, ...
MessageType_as_u16(qr) == IF qr = "Question" THEN 0 ELSE 1

QueryOpcode_as_u16(opcode) ==
    CASE opcode = "Query" -> 0
      [] opcode = "Iquery" -> 1
      [] opcode = "Status" -> 2
      [] opcode = "Reserved" -> 3

ResponseCode_as_u16(rcode) ==
    CASE rcode = "NoError" -> 0
      [] rcode = "FormatError" -> 1
      [] rcode = "ServerFailure" -> 2
      [] rcode = "NameError" -> 3
      [] rcode = "NotImplemented" -> 4
      [] rcode = "Refused" -> 5
      [] rcode = "Reserved" -> 6

bool_as_u16(b) == IF b THEN 1 ELSE 0

MessageType_try_from(value) ==
    CASE value = 0 -> [ok |-> TRUE, value |-> "Question"]
      [] value = 1 -> [ok |-> TRUE, value |-> "Answer"]
      [] OTHER -> [ok |-> FALSE, value |-> "None"]

QueryOpcode_try_from(value) ==
    CASE value = 0 -> [ok |-> TRUE, value |-> "Query"]
      [] value = 1 -> [ok |-> TRUE, value |-> "Iquery"]
      [] value = 2 -> [ok |-> TRUE, value |-> "Status"]
      [] value >= 3 /\ value <= 15 -> [ok |-> TRUE, value |-> "Reserved"]
      [] OTHER -> [ok |-> FALSE, value |-> "None"]

ResponseCode_try_from(value) ==
    CASE value = 0 -> [ok |-> TRUE, value |-> "NoError"]
      [] value = 1 -> [ok |-> TRUE, value |-> "FormatError"]
      [] value = 2 -> [ok |-> TRUE, value |-> "ServerFailure"]
      [] value = 3 -> [ok |-> TRUE, value |-> "NameError"]
      [] value = 4 -> [ok |-> TRUE, value |-> "NotImplemented"]
      [] value = 5 -> [ok |-> TRUE, value |-> "Refused"]
      [] value >= 6 /\ value <= 15 -> [ok |-> TRUE, value |-> "Reserved"]
      [] OTHER -> [ok |-> FALSE, value |-> "None"]

Header_new(id, qr, opcode, authoritative_ans, truncation, recursion_desired, recursion_available, response_code, qdcount, ancount, nscount, arcount) ==
    [id |-> id, qr |-> qr, opcode |-> opcode,
     authoritative_ans |-> authoritative_ans, truncation |-> truncation,
     recursion_desired |-> recursion_desired,
     recursion_available |-> recursion_available,
     response_code |-> response_code, qdcount |-> qdcount,
     ancount |-> ancount, nscount |-> nscount, arcount |-> arcount]

\* Variant: RD and RA exchange their bit positions.
second_section_rd_ra_swapped(h) ==
    MessageType_as_u16(h.qr) * 2^15
    + QueryOpcode_as_u16(h.opcode) * 2^11
    + bool_as_u16(h.authoritative_ans) * 2^10
    + bool_as_u16(h.truncation) * 2^9
    + bool_as_u16(h.recursion_desired) * 2^7
    + bool_as_u16(h.recursion_available) * 2^8
    + ResponseCode_as_u16(h.response_code)

\* qr | opcode | aa | tc | rd | ra | z | rcode: the shifted fields occupy
\* disjoint bits (opcode < 16, rcode < 16), so the bitwise or is their sum.
second_section(h) ==
    MessageType_as_u16(h.qr) * 2^15
    + QueryOpcode_as_u16(h.opcode) * 2^11
    + bool_as_u16(h.authoritative_ans) * 2^10
    + bool_as_u16(h.truncation) * 2^9
    + bool_as_u16(h.recursion_desired) * 2^8
    + bool_as_u16(h.recursion_available) * 2^7
    + 0
    + ResponseCode_as_u16(h.response_code)

Header_to_bytes(h) ==
    be_u16(h.id) \o be_u16(second_section(h)) \o be_u16(h.qdcount)
        \o be_u16(h.ancount) \o be_u16(h.nscount) \o be_u16(h.arcount)

\* nom bits::complete::take(count) on (bytes, offset), for count in 1..8 and
\* offset in 0..7: the bits are read most significant first, whole octets
\* that were consumed are dropped and the bit offset wraps.
bit_parser(bytes, offset, count) ==
    IF Len(bytes) * 8 < count + offset
    THEN [ok |-> FALSE, bytes |-> << >>, offset |-> 0, value |-> 0]
    ELSE LET window == bytes[1] * 256 + (IF Len(bytes) >= 2 THEN bytes[2] ELSE 0)
         IN  [ok |-> TRUE,
              bytes |-> Drop(bytes, (count + offset) \div 8),
              offset |-> (count + offset) % 8,
              value |-> (window % 2^(16 - offset)) \div 2^(16 - offset - count)]

parse_qr(bytes, offset) == bit_parser(bytes, offset, 1)

parse_opcode(bytes, offset) == bit_parser(bytes, offset, 4)

parse_bool_bit(bytes, offset) ==
    LET r == bit_parser(bytes, offset, 1)
    IN  [ok |-> r.ok, bytes |-> r.bytes, offset |-> r.offset, value |-> r.value = 1]

\* Variant: the three Z bits are not skipped.
parse_rcode_no_skip(bytes, offset) == bit_parser(bytes, offset, 4)

\* The Z section is skipped by moving the bit offset 3 further.
parse_rcode(bytes, offset) == bit_parser(bytes, offset + 3, 4)

HeaderErr ==
    [ok |-> FALSE, header |-> [id |-> 0], rest |-> << >>,
     err |-> "InvalidByteStructure"]

\* The fields in the order Header::parse reads them.
HeaderFields ==
    << "id", "qr", "opcode", "authoritative_ans", "truncation",
       "recursion_desired", "recursion_available", "response_code",
       "qdcount", "ancount", "nscount", "arcount" >>

\* One `?` step of Header::parse: st holds the remaining bytes, the bit
\* offset into them and the fields parsed so far; any failure is mapped to
\* InvalidByteStructure.
parse_field(field, st) ==
    LET failed == [st EXCEPT !.ok = FALSE]
        u16 == parse_u16(st.bytes)
        bits == CASE field = "qr" -> parse_qr(st.bytes, st.offset)
                  [] field = "opcode" -> parse_opcode(st.bytes, st.offset)
                  [] field = "response_code" -> parse_rcode(st.bytes, st.offset)
                  [] OTHER -> parse_bool_bit(st.bytes, st.offset)
        member == CASE field = "qr" -> MessageType_try_from(bits.value)
                    [] field = "opcode" -> QueryOpcode_try_from(bits.value)
                    [] field = "response_code" -> ResponseCode_try_from(bits.value)
                    [] OTHER -> [ok |-> TRUE, value |-> bits.value]
    IN  IF field \in {"id", "qdcount", "ancount", "nscount", "arcount"}
        THEN IF ~u16.ok THEN failed
             ELSE [ok |-> TRUE, bytes |-> u16.rest, offset |-> 0,
                   fields |-> [st.fields EXCEPT ![field] = u16.value]]
        ELSE IF ~bits.ok THEN failed
             ELSE IF ~member.ok THEN failed
             ELSE [ok |-> TRUE, bytes |-> bits.bytes, offset |-> bits.offset,
                   fields |-> [st.fields EXCEPT ![field] = member.value]]

RECURSIVE parse_fields(_, _)
parse_fields(fields, st) ==
    IF fields = << >> \/ ~st.ok THEN st
    ELSE parse_fields(Tail(fields), parse_field(Head(fields), st))

Header_parse(bytes) ==
    LET st == parse_fields(HeaderFields,
                           [ok |-> TRUE, bytes |-> bytes, offset |-> 0,
                            fields |-> [f \in {HeaderFields[i] : i \in 1..12} |-> 0]])
    IN  IF ~st.ok THEN HeaderErr
        ELSE [ok |-> TRUE, header |-> st.fields, rest |-> st.bytes,
              err |-> "None"]

(***************************************************************************)
(* The header codec: a Header is built and serialized, or header octets    *)
(* are received from the wire, and Header::parse is applied to the octets  *)
(* followed by the rest of the message.                                    *)
(***************************************************************************)
\* The IDs of test_question_header and test_header_parse.
HeaderIds == { 527, 37067 }

Headers ==
    { Header_new(id, qr, opcode, aa, tc, rd, ra, rcode, qd, an, ns, ar) :
        id \in HeaderIds, qr \in MessageType, opcode \in QueryOpcode,
        aa \in BOOLEAN, tc \in BOOLEAN, rd \in BOOLEAN, ra \in BOOLEAN,
        rcode \in ResponseCode, qd \in {0, 2}, an \in {0, 3},
        ns \in {0, 1}, ar \in {0, 258} }

\* What follows the header in the message.
HeaderTails == { << >>, <<7>> }

\* Second octets of the flags word received from the wire: every RCODE
\* value, with and without RA and Z bits.
FlagOctets == (0..15) \cup {128, 143, 112, 255}

\* header.to_bytes()
HeaderToBytes ==
    /\ items = << >>
    /\ buf = << >>
    /\ call = NoCall
    /\ \E h \in Headers :
        /\ items' = << h >>
        /\ buf' = Header_to_bytes(h)
    /\ UNCHANGED <<label_map, message, rolling_offset, call, decoded,
                   ops, text>>

\* Header octets arrive from the wire, possibly cut short.
ReceiveHeader ==
    /\ items = << >>
    /\ buf = << >>
    /\ call = NoCall
    /\ \E b1 \in 0..255, b2 \in FlagOctets, n \in 0..12 :
        buf' = Take(<<2, 15, b1, b2, 0, 2, 0, 0, 0, 0, 0, 0>>, n)
    /\ UNCHANGED <<label_map, message, rolling_offset, items, call,
                   decoded, ops, text>>

\* Header::parse(&message) where message is buf followed by a tail
HeaderParse ==
    \E tail \in HeaderTails :
        LET r == Header_parse(buf \o tail) IN
            /\ call = NoCall
            /\ call' = [op |-> "header_parse", tail |-> tail, ok |-> r.ok,
                        header |-> r.header, rest |-> r.rest, err |-> r.err]
            /\ UNCHANGED <<label_map, message, rolling_offset, items,
                           decoded, ops, buf, text>>

\* header.to_bytes() of the header Header::parse returned for octets
\* received from the wire
HeaderReencode ==
    /\ call.op = "header_parse"
    /\ call.ok
    /\ items = << >>
    /\ call' = [op |-> "header_reencode", header |-> call.header,
                received |-> Take(buf \o call.tail, 12),
                bytes |-> Header_to_bytes(call.header)]
    /\ UNCHANGED <<label_map, message, rolling_offset, items, decoded,
                   ops, buf, text>>

NextHeader == HeaderToBytes \/ ReceiveHeader \/ HeaderParse \/ HeaderReencode

SpecHeader == Init /\ [][NextHeader]_vars

\* The header of test_question_header.
QuestionHeader ==
    Header_new(527, "Question", "Query", FALSE, FALSE, TRUE, FALSE, "NoError",
               2, 0, 0, 0)

\* Bit k (15 = most significant) of the 16-bit word at octets i, i + 1.
WordBit(bytes, i, k) == ((bytes[i] * 256 + bytes[i + 1]) \div 2^k) % 2

\* C15: to_bytes yields exactly 12 octets: the ID, then a word with QR in
\* bit 15, OPCODE in bits 14-11, AA, TC, RD, RA in bits 10, 9, 8, 7, three
\* zero Z bits and RCODE in the low 4 bits, then the four counts, all
\* big-endian; the header of test_question_header gives
\* 02 0F 01 00 00 02 00 00 00 00 00 00.
C15_HeaderBitExact ==
    items # << >> =>
        LET h == items[1]
            word == buf[3] * 256 + buf[4]
        IN  /\ Len(buf) = 12
            /\ buf[1] * 256 + buf[2] = h.id
            /\ WordBit(buf, 3, 15) = MessageType_as_u16(h.qr)
            /\ (word \div 2^11) % 16 = QueryOpcode_as_u16(h.opcode)
            /\ WordBit(buf, 3, 10) = bool_as_u16(h.authoritative_ans)
            /\ WordBit(buf, 3, 9) = bool_as_u16(h.truncation)
            /\ WordBit(buf, 3, 8) = bool_as_u16(h.recursion_desired)
            /\ WordBit(buf, 3, 7) = bool_as_u16(h.recursion_available)
            /\ (word \div 2^4) % 8 = 0
            /\ word % 16 = ResponseCode_as_u16(h.response_code)
            /\ buf[5] * 256 + buf[6] = h.qdcount
            /\ buf[7] * 256 + buf[8] = h.ancount
            /\ buf[9] * 256 + buf[10] = h.nscount
            /\ buf[11] * 256 + buf[12] = h.arcount
            /\ h = QuestionHeader => buf = <<2, 15, 1, 0, 0, 2, 0, 0, 0, 0, 0, 0>>

C15_Witness ==
    /\ items = << QuestionHeader >>
    /\ buf = <<2, 15, 1, 0, 0, 2, 0, 0, 0, 0, 0, 0>>

\* C16: for every Header h, Header::parse(h.to_bytes()) succeeds, returns a
\* header with the same value in every field, and consumes exactly 12
\* octets, leaving the rest of the buffer as the remainder.
C16_HeaderParseInvertsToBytes ==
    (call.op = "header_parse" /\ items # << >>) =>
        /\ call.ok
        /\ call.header = items[1]
        /\ call.rest = call.tail

C16_Witness ==
    /\ call.op = "header_parse"
    /\ items # << >>
    /\ items[1].opcode = "Reserved"
    /\ items[1].response_code = "Reserved"
    /\ items[1].recursion_available
    /\ items[1].arcount = 258
    /\ call.tail = <<7>>
    /\ call.ok
    /\ call.header = items[1]

\* The error kinds of ParseHeaderError.
ParseHeaderError ==
    { "IdError", "QrError", "OpcodeError", "AaError", "TcError", "RdError",
      "RaError", "RcodeError", "QdcountError", "AncountError", "NscountError",
      "ArcountError" }

\* C17: a header Header::parse returns has QR, OPCODE and RCODE in their
\* enumerations, and when it fails it fails with the parse error kind of
\* the field that could not be parsed.
C17_HeaderFieldErrors ==
    call.op = "header_parse" =>
        IF call.ok
        THEN /\ call.header.qr \in MessageType
             /\ call.header.opcode \in QueryOpcode
             /\ call.header.response_code \in ResponseCode
        ELSE call.err \in ParseHeaderError

(***************************************************************************)
(* Resource records.  An Rdata is a record tagged with its variant; a      *)
(* ResourceRecord is a record of name, type, class, ttl and rdata.         *)
(***************************************************************************)
ResourceRecordType_as_u16(type) ==
    CASE type = "A" -> 1
      [] type = "Ns" -> 2
      [] type = "Cname" -> 5
      [] type = "Soa" -> 6
      [] type = "Ptr" -> 12
      [] type = "Txt" -> 16

ResourceRecordClass_as_u16(class) ==
    CASE class = "In" -> 1
      [] class = "Cs" -> 2
      [] class = "Ch" -> 3
      [] class = "Hs" -> 4

be_u32(v) ==
    << (v \div 16777216) % 256, (v \div 65536) % 256, (v \div 256) % 256, v % 256 >>

\* i32::to_be_bytes: two's complement on 32 bits; for a negative v the sign
\* bit is set and the low 31 bits are those of v + 2^31.
be_i32(v) ==
    IF v >= 0 THEN be_u32(v)
    ELSE LET low == (v + 2147483647) + 1
         IN  << 128 + (low \div 16777216), (low \div 65536) % 256,
                (low \div 256) % 256, low % 256 >>

CharacterString_to_bytes(cs) == <<Len(cs)>> \o cs

\* flat_map(|cs| cs.to_bytes()): the wire forms in order, concatenated by
\* halves.
RECURSIVE TxtBytes_to_bytes(_)
TxtBytes_to_bytes(txt_data) ==
    IF txt_data = << >> THEN << >>
    ELSE IF Len(txt_data) = 1 THEN CharacterString_to_bytes(txt_data[1])
    ELSE TxtBytes_to_bytes(Take(txt_data, Len(txt_data) \div 2))
             \o TxtBytes_to_bytes(Drop(txt_data, Len(txt_data) \div 2))

SoaBytes_to_bytes(soa) ==
    DomainName_to_bytes(soa.mname) \o DomainName_to_bytes(soa.rname)
        \o be_u32(soa.serial) \o be_u32(soa.refresh) \o be_u32(soa.retry)
        \o be_u32(soa.expire) \o be_u32(soa.minimum)

Rdata_to_bytes(rdata) ==
    CASE rdata.kind = "A" -> rdata.address
      [] rdata.kind \in {"Ns", "Cname", "Ptr"} -> DomainName_to_bytes(rdata.name)
      [] rdata.kind = "Soa" -> SoaBytes_to_bytes(rdata)
      [] rdata.kind = "Txt" -> TxtBytes_to_bytes(rdata.txt_data)

ResourceRecord_new(name, type, class, ttl, rdata) ==
    [name |-> name, type |-> type, class |-> class, ttl |-> ttl, rdata |-> rdata]

\* rdata_bytes.len() as u16 keeps the low 16 bits of the length.
ResourceRecord_to_bytes(rr) ==
    LET rdata_bytes == Rdata_to_bytes(rr.rdata)
        rdlength == Len(rdata_bytes) % 65536
    IN  DomainName_to_bytes(rr.name)
            \o be_u16(ResourceRecordType_as_u16(rr.type))
            \o be_u16(ResourceRecordClass_as_u16(rr.class))
            \o be_i32(rr.ttl)
            \o be_u16(rdlength)
            \o rdata_bytes

(***************************************************************************)
(* Serializing a record: an RDATA is made, then a record holding it is     *)
(* built and serialized.                                                   *)
(***************************************************************************)
\* A character string of n characters 'x'.
TextOf(n) == [i \in 1..n |-> 120]

Rdatas ==
    { [kind |-> "A", address |-> a] : a \in { <<111, 2, 0, 41>>, <<0, 0, 0, 0>> } }
    \cup { [kind |-> k, name |-> n] : k \in {"Ns", "Cname", "Ptr"}, n \in SessionNames }
    \cup { [kind |-> "Soa", mname |-> m, rname |-> r, serial |-> sr,
            refresh |-> 3600, retry |-> 600, expire |-> 5184000, minimum |-> 60] :
             m \in SessionNames, r \in { <<<<97>>>> }, sr \in {0, 2023113001} }
    \cup { [kind |-> "Txt", txt_data |-> [i \in 1..n |-> TextOf(len)]] :
             n \in {1, 2, MaxTxtStrings}, len \in {0, 4, 255} }

RecordTtls == { 0, 1132, 86400, 2147483647, -1, -2147483647 }

\* Rdata::A(..), Rdata::Ns(..), ...
MakeRdata ==
    /\ items = << >>
    /\ call = NoCall
    /\ \E rdata \in Rdatas : items' = << rdata >>
    /\ UNCHANGED <<label_map, message, rolling_offset, call, decoded, ops,
                   buf, text>>

\* ResourceRecord::new(name, type, class, ttl, rdata).to_bytes()
RecordToBytes ==
    /\ items # << >>
    /\ call = NoCall
    /\ \E name \in { <<<<97>>>>, <<<<98, 99>>, <<97>>>> },
          type \in {"A", "Cname", "Txt"}, class \in {"In", "Hs"},
          ttl \in RecordTtls :
        LET rr == ResourceRecord_new(name, type, class, ttl, items[1])
        IN  call' = [op |-> "record_to_bytes", record |-> rr,
                     bytes |-> ResourceRecord_to_bytes(rr)]
    /\ UNCHANGED <<label_map, message, rolling_offset, items, decoded, ops,
                   buf, text>>

NextRecord == MakeRdata \/ RecordToBytes

SpecRecord == Init /\ [][NextRecord]_vars

\* The unsigned value of the n octets of bytes that start at offset at.
RECURSIVE Unsigned(_, _, _)
Unsigned(bytes, at, n) ==
    IF n = 0 THEN 0
    ELSE Unsigned(bytes, at, n - 1) * 256 + bytes[at + n]

\* The big-endian two's complement value of the 4 octets at offset at.
SignedWord(bytes, at) ==
    LET low == (bytes[at + 1] % 128) * 16777216 + Unsigned(bytes, at + 1, 3)
    IN  IF bytes[at + 1] >= 128 THEN (low - 2147483647) - 1 ELSE low

\* C20: a serialized record is NAME, TYPE, CLASS, TTL (4 octets, big-endian
\* two's complement), RDLENGTH (2 octets) and RDATA in that order, and the
\* emitted RDLENGTH equals the number of octets of the RDATA that follows.
C20_RecordLayoutAndLength ==
    call.op = "record_to_bytes" =>
        LET rr == call.record
            name == DomainName_to_bytes(rr.name)
            n == Len(name)
            bytes == call.bytes
        IN  /\ Len(bytes) >= n + 10
            /\ Take(bytes, n) = name
            /\ Unsigned(bytes, n, 2) = ResourceRecordType_as_u16(rr.type)
            /\ Unsigned(bytes, n + 2, 2) = ResourceRecordClass_as_u16(rr.class)
            /\ SignedWord(bytes, n + 4) = rr.ttl
            /\ Drop(bytes, n + 10) = Rdata_to_bytes(rr.rdata)
            /\ Unsigned(bytes, n + 8, 2) = Len(bytes) - (n + 10)

(***************************************************************************)
(* Parsing resource records.  Every parser returns a record with ok, the   *)
(* parsed value and the remaining input.                                   *)
(***************************************************************************)
\* number::complete::be_u16 / be_u32: the big-endian value of the octets.
RECURSIVE be_octets(_)
be_octets(octets) ==
    IF octets = << >> THEN 0
    ELSE be_octets(Take(octets, Len(octets) - 1)) * 256 + octets[Len(octets)]

byte_parser(input, count) ==
    IF Len(input) < count THEN [ok |-> FALSE, taken |-> << >>, rest |-> << >>]
    ELSE [ok |-> TRUE, taken |-> Take(input, count), rest |-> Drop(input, count)]

parse_u32(bytes) ==
    LET r == byte_parser(bytes, 4) IN
    IF ~r.ok THEN [ok |-> FALSE, value |-> 0, rest |-> << >>]
    ELSE [ok |-> TRUE, value |-> be_octets(r.taken), rest |-> r.rest]

parse_i32(bytes) ==
    LET r == byte_parser(bytes, 4) IN
    IF ~r.ok THEN [ok |-> FALSE, value |-> 0, rest |-> << >>]
    ELSE [ok |-> TRUE,
          value |-> IF r.taken[1] >= 128
                    THEN (be_octets(<<r.taken[1] - 128>> \o Drop(r.taken, 1))
                              - 2147483647) - 1
                    ELSE be_octets(r.taken),
          rest |-> r.rest]

ResourceRecordTypes ==
    << "A", "Ns", "Md", "Mf", "Cname", "Soa", "Mb", "Mg", "Mr", "Null", "Wks",
       "Ptr", "Hinfo", "Minfo", "Mx", "Txt" >>

ResourceRecordType_try_from(value) ==
    IF value >= 1 /\ value <= 16
    THEN [ok |-> TRUE, type |-> ResourceRecordTypes[value]]
    ELSE [ok |-> FALSE, type |-> "none"]

ResourceRecordClass_try_from(value) ==
    IF value >= 1 /\ value <= 4
    THEN [ok |-> TRUE, class |-> << "In", "Cs", "Ch", "Hs" >>[value]]
    ELSE [ok |-> FALSE, class |-> "none"]

is_ascii(octets) == \A i \in 1..Len(octets) : octets[i] < 128

CharacterString_parse(bytes) ==
    LET first == byte_parser(bytes, 1) IN
    IF ~first.ok THEN [ok |-> FALSE, value |-> << >>, rest |-> << >>]
    ELSE LET len == first.taken[1]
             second == byte_parser(first.rest, len)
         IN  IF ~second.ok \/ ~is_ascii(second.taken)
             THEN [ok |-> FALSE, value |-> << >>, rest |-> << >>]
             ELSE [ok |-> TRUE, value |-> second.taken, rest |-> second.rest]

\* while let Ok(..) = CharacterString::parse(bytes): the loop ends at the
\* first character string that does not parse, and the result is Ok.
RECURSIVE TxtBytes_parse_loop(_, _)
TxtBytes_parse_loop(txt_data, bytes) ==
    LET r == CharacterString_parse(bytes) IN
    IF r.ok THEN TxtBytes_parse_loop(Append(txt_data, r.value), r.rest)
    ELSE [ok |-> TRUE, value |-> [kind |-> "Txt", txt_data |-> txt_data],
          rest |-> bytes]

TxtBytes_parse(bytes) == TxtBytes_parse_loop(<< >>, bytes)

RdataErr == [ok |-> FALSE, value |-> [kind |-> "none"], rest |-> << >>]

ARdata_parse(bytes) ==
    LET r == byte_parser(bytes, 4) IN
    IF ~r.ok THEN RdataErr
    ELSE [ok |-> TRUE, value |-> [kind |-> "A", address |-> r.taken],
          rest |-> r.rest]

\* NsdnameBytes::parse, CnameBytes::parse and PtrBytes::parse.
NameBytes_parse(kind, bytes) ==
    LET r == DomainName_parse(bytes) IN
    IF ~r.ok THEN RdataErr
    ELSE [ok |-> TRUE, value |-> [kind |-> kind, name |-> r.labels],
          rest |-> r.rest]

SoaBytes_parse(bytes) ==
    LET mname == DomainName_parse(bytes)
        rname == DomainName_parse(mname.rest)
        serial == parse_u32(rname.rest)
        refresh == parse_u32(serial.rest)
        retry == parse_u32(refresh.rest)
        expire == parse_u32(retry.rest)
        minimum == parse_u32(expire.rest)
    IN  IF ~mname.ok THEN RdataErr
        ELSE IF ~rname.ok THEN RdataErr
        ELSE IF ~serial.ok THEN RdataErr
        ELSE IF ~refresh.ok THEN RdataErr
        ELSE IF ~retry.ok THEN RdataErr
        ELSE IF ~expire.ok THEN RdataErr
        ELSE IF ~minimum.ok THEN RdataErr
        ELSE [ok |-> TRUE,
              value |-> [kind |-> "Soa", mname |-> mname.labels,
                         rname |-> rname.labels, serial |-> serial.value,
                         refresh |-> refresh.value, retry |-> retry.value,
                         expire |-> expire.value, minimum |-> minimum.value],
              rest |-> minimum.rest]

\* The variant parser Rdata::parse selects for a type; the types without a
\* decoded variant have none.
VariantParse(type, bytes) ==
    CASE type = "A" -> ARdata_parse(bytes)
      [] type \in {"Ns", "Cname", "Ptr"} -> NameBytes_parse(type, bytes)
      [] type = "Soa" -> SoaBytes_parse(bytes)
      [] type = "Txt" -> TxtBytes_parse(bytes)
      [] OTHER -> RdataErr

Rdata_parse_lenient(type, bytes) ==
    [some |-> TRUE, rdata |-> VariantParse(type, bytes).value]

\* Rdata::parse keeps d.0 of the variant parser's result: Some(rdata) when
\* it is Ok and None otherwise; the variant parser's remaining input is
\* not looked at.
Rdata_parse(type, bytes) ==
    LET d == VariantParse(type, bytes) IN
    IF d.ok THEN [some |-> TRUE, rdata |-> d.value]
    ELSE [some |-> FALSE, rdata |-> [kind |-> "none"]]

RecordErr ==
    [ok |-> FALSE, record |-> [type |-> "none"], rest |-> << >>,
     err |-> "InvalidByteStructure"]

ResourceRecord_parse(bytes) ==
    LET domain_name == DomainName_parse(bytes)
        type_bytes == byte_parser(domain_name.rest, 2)
        type_data == parse_u16(type_bytes.taken)
        type == ResourceRecordType_try_from(type_data.value)
        class_bytes == byte_parser(type_bytes.rest, 2)
        class_data == parse_u16(class_bytes.taken)
        class == ResourceRecordClass_try_from(class_data.value)
        ttl_bytes == byte_parser(class_bytes.rest, 4)
        ttl_data == parse_i32(ttl_bytes.taken)
        rdlength_bytes == byte_parser(ttl_bytes.rest, 2)
        rdlength == parse_u16(rdlength_bytes.taken)
        rdata_bytes == byte_parser(rdlength_bytes.rest, rdlength.value)
        rdata == Rdata_parse(type.type, rdata_bytes.taken)
    IN  IF ~domain_name.ok THEN RecordErr
        ELSE IF ~type_bytes.ok \/ ~type_data.ok THEN RecordErr
        ELSE IF ~type.ok THEN RecordErr
        ELSE IF ~class_bytes.ok \/ ~class_data.ok THEN RecordErr
        ELSE IF ~class.ok THEN RecordErr
        ELSE IF ~ttl_bytes.ok \/ ~ttl_data.ok THEN RecordErr
        ELSE IF ~rdlength_bytes.ok \/ ~rdlength.ok THEN RecordErr
        ELSE IF ~rdata_bytes.ok THEN RecordErr
        ELSE IF ~rdata.some THEN RecordErr
        ELSE [ok |-> TRUE,
              record |-> [class |-> class.class, name |-> domain_name.labels,
                          rdata |-> rdata.rdata, ttl |-> ttl_data.value,
                          type |-> type.type],
              rest |-> rdata_bytes.rest,
              err |-> "none"]

(***************************************************************************)
(* Receiving and parsing a record: the buffer is a NAME, a TYPE, a CLASS,  *)
(* a TTL, an RDLENGTH and the octets that follow it, possibly cut short;   *)
(* the RDLENGTH is the number of following octets or one off it.  The      *)
(* 32-bit fields of the SOA buffers stay below 2^31.                       *)
(***************************************************************************)
MaxCut == 3

RecordNames == { <<0>>, <<1, 97, 0>>, <<2, 98, 99, 1, 97, 0>>, <<1, 97>> }

RecordTypeValues == { 0, 1, 2, 3, 5, 6, 12, 15, 16, 17 }

RecordClassValues == { 1, 4, 5 }

RdataSlices ==
    { << >>,
      <<111, 2, 0, 41>>, <<111, 2, 0, 41, 9>>, <<111, 2, 0>>,
      <<1, 97, 0>>, <<1, 97, 0, 7>>, <<1, 97>>,
      <<3, 120, 120, 120>>, <<1, 120, 2, 121, 122>>, <<3, 120, 120>>,
      <<1, 120, 2, 121>>, <<1, 200>>,
      <<1, 97, 0, 0, 0, 0, 0, 7, 0, 0, 14, 16, 0, 0, 2, 88, 0, 79, 26, 0,
        0, 0, 0, 60>>,
      <<1, 97, 0, 0, 0, 0, 0, 7, 0, 0, 14, 16, 0, 0, 2, 88, 0, 79, 26, 0,
        0, 0, 0, 60, 5>> }

RdlengthSlack == { -1, 0, 1 }

ReceiveRecord ==
    /\ buf = << >>
    /\ call = NoCall
    /\ \E name \in RecordNames, type \in RecordTypeValues,
          class \in RecordClassValues, payload \in RdataSlices,
          slack \in RdlengthSlack, cut \in 0..MaxCut :
        LET rdlength == IF Len(payload) + slack < 0 THEN 0
                        ELSE Len(payload) + slack
            whole == name \o be_u16(type) \o be_u16(class)
                         \o <<0, 0, 4, 108>> \o be_u16(rdlength) \o payload
        IN  buf' = Take(whole, Len(whole) - Min(cut * 4, Len(whole) - 1))
    /\ UNCHANGED <<label_map, message, rolling_offset, items, call,
                   decoded, ops, text>>

\* ResourceRecord::parse(&buf, None)
RecordParse ==
    /\ buf # << >>
    /\ items = << >>
    /\ call = NoCall
    /\ LET r == ResourceRecord_parse(buf)
       IN  call' = [op |-> "record_parse", ok |-> r.ok, record |-> r.record,
                    rest |-> r.rest, err |-> r.err]
    /\ UNCHANGED <<label_map, message, rolling_offset, items, decoded, ops,
                   buf, text>>

\* The RDLENGTH-bounded slice of a record is handed to a variant parser.
ReceiveRdata ==
    /\ buf = << >>
    /\ items = << >>
    /\ call = NoCall
    /\ \E slice \in RdataSlices :
        /\ items' = << slice >>
        /\ buf' = slice
    /\ UNCHANGED <<label_map, message, rolling_offset, call, decoded, ops,
                   text>>

\* TxtBytes::parse(&slice, None)
TxtParse ==
    /\ items # << >>
    /\ call = NoCall
    /\ LET r == TxtBytes_parse(items[1])
       IN  call' = [op |-> "txt_parse", ok |-> r.ok,
                    txt_data |-> r.value.txt_data, rest |-> r.rest,
                    err |-> IF r.ok THEN "none" ELSE "InvalidByteStructure"]
    /\ UNCHANGED <<label_map, message, rolling_offset, items, decoded, ops,
                   buf, text>>

NextRecordParse == ReceiveRecord \/ RecordParse \/ ReceiveRdata \/ TxtParse

SpecRecordParse == Init /\ [][NextRecordParse]_vars

\* The TYPE values whose type has a decoded RDATA variant.
DecodedTypeValues == { 1, 2, 5, 6, 12, 16 }

\* C21: ResourceRecord::parse takes exactly RDLENGTH octets as the RDATA
\* slice and dispatches on TYPE alone; it fails with InvalidByteStructure
\* when TYPE has no decoded variant, when fewer than RDLENGTH octets remain
\* or when the variant parser fails on the slice, and on success the
\* remainder starts right after the RDLENGTH octets.
C21_RecordParseFraming ==
    call.op = "record_parse" =>
        LET name == DomainName_parse(buf)
            after == name.rest
            type == Unsigned(after, 0, 2)
            rdlength == Unsigned(after, 8, 2)
            slice == SubSeq(after, 11, 10 + rdlength)
            failed == ~call.ok /\ call.err = "InvalidByteStructure"
        IN  /\ ~call.ok => call.err = "InvalidByteStructure"
            /\ (name.ok /\ Len(after) >= 10) =>
                /\ type \notin DecodedTypeValues => failed
                /\ Len(after) - 10 < rdlength => failed
                /\ ( /\ type \in DecodedTypeValues
                     /\ Len(after) - 10 >= rdlength
                     /\ ~VariantParse(ResourceRecordTypes[type], slice).ok )
                       => failed
                /\ call.ok =>
                    /\ call.rest = Drop(after, 10 + rdlength)
                    /\ call.record.name = name.labels
                    /\ ResourceRecordType_as_u16(call.record.type) = type
                    /\ ResourceRecordClass_as_u16(call.record.class)
                           = Unsigned(after, 2, 2)
                    /\ call.record.ttl = SignedWord(after, 4)
                    /\ call.record.rdata
                           = VariantParse(call.record.type, slice).value

C21_Witness ==
    /\ call.op = "record_parse"
    /\ call.ok
    /\ call.record.rdata.kind = "A"
    /\ call.rest # << >>

\* No character string of the slice declares more octets than are left.
RECURSIVE WholeStrings(_)
WholeStrings(bytes) ==
    \/ bytes = << >>
    \/ /\ bytes[1] <= Len(bytes) - 1
       /\ WholeStrings(Drop(bytes, bytes[1] + 1))

\* C22: TXT RDATA parsing succeeds with the one or more strings in wire
\* order and an empty remainder when the slice is a whole number of
\* well-formed character strings, and fails with InvalidByteStructure when
\* the slice ends in the middle of a character string.
C22_TxtSliceExhausted ==
    call.op = "txt_parse" =>
        LET slice == items[1] IN
        IF WholeStrings(slice)
        THEN (slice # << >> /\ is_ascii(slice)) =>
                 /\ call.ok
                 /\ call.rest = << >>
                 /\ Len(call.txt_data) >= 1
                 /\ TxtBytes_to_bytes(call.txt_data) = slice
        ELSE ~call.ok /\ call.err = "InvalidByteStructure"

\* C28: a record ResourceRecord::parse accepts had its RDLENGTH octets
\* consumed completely by the variant parser its TYPE selects.
C28_RdataFullyConsumed ==
    (call.op = "record_parse" /\ call.ok) =>
        LET after == DomainName_parse(buf).rest
            slice == SubSeq(after, 11, 10 + Unsigned(after, 8, 2))
        IN  VariantParse(call.record.type, slice).rest = << >>

\* C23: insert walks the suffixes from the longest and stops at the first
\* that is already a key; with k vacant suffixes it returns
\* inserted_records = k, stores suffix i < k at offset plus the wire length
\* of the i labels before it, returns new_offset = offset plus the wire
\* length of the first k labels, and returns the already-present suffix as
\* remaining_labels (empty when every suffix was inserted).
C23_InsertWalksSuffixes ==
    call.op = "insert" =>
        LET labels == call.labels
            first == LongestKey(call.pre_map, labels)
            k == IF first = 0 THEN Len(labels) ELSE first - 1
        IN  /\ call.inserted_records = k
            /\ DOMAIN label_map
                   = DOMAIN call.pre_map \cup { Suffix(labels, i + 1) : i \in 0..(k - 1) }
            /\ \A i \in 0..(k - 1) :
                   label_map[Suffix(labels, i + 1)]
                       = call.offset + Len(labels_to_bytes(Take(labels, i)))
            /\ call.new_offset = call.offset + Len(labels_to_bytes(Take(labels, k)))
            /\ call.remaining_labels
                   = IF k = Len(labels) THEN << >> ELSE Suffix(labels, k + 1)

C23_Witness ==
    /\ call.op = "insert"
    /\ Len(call.labels) = 3
    /\ call.offset = 29
    /\ call.inserted_records = 2
    /\ call.remaining_labels = Suffix(call.labels, 3)
    /\ call.new_offset > 29

\* The offset after the first n questions, each serialized at the offset
\* the one before it returned.
RECURSIVE ThreadedOffset(_, _, _, _)
ThreadedOffset(questions, n, base_offset, map) ==
    IF n = 0 THEN [new_offset |-> base_offset, map |-> map]
    ELSE LET before == ThreadedOffset(questions, n - 1, base_offset, map)
             result == Question_to_bytes_compressed(questions[n], before.new_offset,
                                                    before.map)
         IN  [new_offset |-> result.new_offset, map |-> result.map]

\* C24: every to_bytes_compressed call of a DomainName, a Question or a
\* MessageQuestions returns new_offset = base_offset + the number of octets
\* of compressed_bytes; a Question adds exactly 4 to its name's new_offset,
\* and MessageQuestions threads each question's new_offset into the next
\* and returns the last one.
C24_OffsetBookkeeping ==
    /\ Serialized =>
           /\ call.name_new_offset = call.base_offset + Len(call.name_bytes)
           /\ call.new_offset = call.base_offset + Len(call.compressed_bytes)
           /\ items[Len(items)].kind = "question" =>
                  call.new_offset = call.name_new_offset + 4
    /\ call.op = "questions_to_bytes_compressed" =>
           /\ call.new_offset = call.base_offset + Len(call.compressed_bytes)
           /\ call.new_offset
                  = ThreadedOffset(call.questions, Len(call.questions),
                                   call.base_offset, call.pre_map).new_offset

C24_Witness ==
    /\ call.op = "questions_to_bytes_compressed"
    /\ Len(call.questions) = 2
    /\ call.base_offset > 0
    /\ call.questions[1].qname \notin DOMAIN call.pre_map
    /\ call.questions[2].qname = call.questions[1].qname
    /\ Len(call.compressed_bytes) = Len(DomainName_to_bytes(call.questions[1].qname)) + 10

\* C25: in every state reached from the empty map by insert,
\* to_bytes_compressed and clear, every non-empty proper suffix of a key is
\* a key.
C25_KeysSuffixClosed ==
    \A k \in DOMAIN label_map :
        \A i \in 2..Len(k) : Suffix(k, i) \in DOMAIN label_map

C25_Witness ==
    /\ call.op = "name_to_bytes_compressed"
    /\ call.pre_map # NoMap
    /\ \E k \in DOMAIN label_map :
           /\ Len(k) = 3
           /\ k \notin DOMAIN call.pre_map
           /\ Suffix(k, 2) \notin DOMAIN call.pre_map
           /\ Suffix(k, 3) \in DOMAIN call.pre_map

\* The number of passes through the loop of parse_compressed that start at
\* offset or later: one per label read, the last one ending at a pointer,
\* at the root label or at octets that are neither.
RECURSIVE LoopPasses(_, _)
LoopPasses(bytes, offset) ==
    IF offset > Len(bytes) THEN 0
    ELSE LET rest == Drop(bytes, offset)
             lbl == DomainLabel_parse(rest)
         IN  IF DomainPointer_parse(rest).ok \/ ~lbl.ok \/ DomainLabel_is_empty(lbl.label)
             THEN 1
             ELSE 1 + LoopPasses(bytes, offset + DomainLabel_len_bytes(lbl.label))

\* C26: parse_compressed ends on every buffer and base offset within it,
\* after at most one pass per octet of the buffer, and what it returns is a
\* name or an error, also when a pointer targets itself, a later offset or
\* a pointer that leads back to it.
C26_ParseCompressedTerminates ==
    call.op = "parse_compressed" =>
        /\ LoopPasses(buf, call.base_offset) <= Len(buf) + 1
        /\ call.kind \in {"Ok", "Err"}

\* C27: for every byte sequence DomainName::parse accepts, to_bytes of the
\* parsed name reproduces exactly the octets parse consumed.
C27_ReserializationStable ==
    call.op = "reserialize" => call.bytes = call.consumed

(***************************************************************************)
(* The root name, DomainName::new(vec![]), given to the LabelMap and to    *)
(* the compressed serializer after the map was filled by earlier inserts.  *)
(* An abort ends the session.                                              *)
(***************************************************************************)
RootLabels == << >>

\* label_map.get_domain_ptr(&[])
RootGetDomainPtr ==
    LET out == get_domain_ptr(label_map, RootLabels)
    IN  /\ ops < MaxMapOps
        /\ ops' = IF out.kind = "Panic" THEN MaxMapOps ELSE ops + 1
        /\ call' = [op |-> "root_get_domain_ptr", pre_map |-> label_map,
                    kind |-> out.kind]
        /\ UNCHANGED <<label_map, message, rolling_offset, items, decoded,
                       buf, text>>

\* label_map.insert(&[], offset)
RootInsert ==
    \E offset \in MapOffsets :
        LET out == insert(label_map, RootLabels, offset)
        IN  /\ ops < MaxMapOps
            /\ ops' = IF out.kind = "Panic" THEN MaxMapOps ELSE ops + 1
            /\ label_map' = out.map
            /\ call' = [op |-> "root_insert", pre_map |-> label_map,
                        offset |-> offset, kind |-> out.kind,
                        inserted_records |-> out.inserted_records]
            /\ UNCHANGED <<message, rolling_offset, items, decoded, buf, text>>

\* DomainName::new(vec![]).to_bytes_compressed(offset, &mut label_map)
RootToBytesCompressed ==
    \E offset \in MapOffsets :
        LET out == DomainName_to_bytes_compressed(RootLabels, offset, label_map)
        IN  /\ ops < MaxMapOps
            /\ ops' = IF out.kind = "Panic" THEN MaxMapOps ELSE ops + 1
            /\ label_map' = out.map
            /\ call' = [op |-> "root_to_bytes_compressed", pre_map |-> label_map,
                        offset |-> offset, kind |-> out.kind]
            /\ UNCHANGED <<message, rolling_offset, items, decoded, buf, text>>

NextRoot ==
    \/ MapInsert
    \/ MapClear
    \/ RootGetDomainPtr
    \/ RootInsert
    \/ RootToBytesCompressed

SpecRoot == Init /\ [][NextRoot]_vars

\* C29: for the empty label sequence get_domain_ptr returns None, insert
\* inserts nothing and to_bytes_compressed returns, none of them aborting
\* on the index arithmetic.
C29_RootNameReturnsNormally ==
    /\ call.op = "root_get_domain_ptr" => call.kind = "None"
    /\ call.op = "root_insert" =>
           /\ call.kind = "Ok"
           /\ call.inserted_records = 0
           /\ label_map = call.pre_map
    /\ call.op = "root_to_bytes_compressed" => call.kind = "Ok"

\* C30: for every 12-octet buffer with zero Z bits that Header::parse
\* accepts, to_bytes of the parsed header is the buffer, the OPCODE and
\* RCODE wire values included.
C30_HeaderReencodePreserved ==
    ( /\ call.op = "header_reencode"
      /\ Len(call.received) = 12
      /\ (call.received[4] \div 16) % 8 = 0 ) =>
        call.bytes = call.received

====
